---- MODULE Spec2Model ----
(***************************************************************************)
(* Tool invocation and resilience layer: the tool registry and the         *)
(* dispatch entry point of tools.py, and the retry wrapper of              *)
(* utils/retry.py.                                                         *)
(*                                                                         *)
(* A formatted string (an f-string of the source) is the tuple of its      *)
(* literal and interpolated parts; the outcome of a call is a record       *)
(* [kind |-> "return", value |-> v] or [kind |-> "raise", exc |-> e], an   *)
(* exception e being [cls |-> class name, msg |-> str(e)].                 *)
(***************************************************************************)
EXTENDS Integers, Sequences, FiniteSets, TLC

VARIABLES tools, order, history, lastCall,
          policy, pc, attempt, last_exception, calls, delays, pending,
          on_retry_calls, result, origin,
          descriptor, schema_out,
          instance, heap, registry, refs, lastUse,
          a_pc, a_attempt, a_last_exception, a_calls, a_delays, a_pending,
          a_on_retry_calls, a_result, a_target,
          other_ran, thread_ran,
          is_enabled, session_id, current_trace_file, events, files, logged,
          lastLog,
          listing, seen,
          closure, wrapped_as, cs

regVars == <<tools, order, history, lastCall>>
retryVars == <<policy, pc, attempt, last_exception, calls, delays, pending,
               on_retry_calls, result>>
schemaVars == <<descriptor, schema_out>>
singletonVars == <<instance, heap, registry, refs, lastUse>>
asyncVars == <<a_pc, a_attempt, a_last_exception, a_calls, a_delays,
               a_pending, a_on_retry_calls, a_result, a_target>>
schedVars == <<other_ran, thread_ran>>
loggerVars == <<is_enabled, session_id, current_trace_file, events, files,
                logged, lastLog>>
catalogVars == <<listing, seen>>
interVars == <<closure, wrapped_as, cs>>
otherVars == <<schemaVars, singletonVars, asyncVars, schedVars, loggerVars,
               catalogVars, interVars>>
vars == <<tools, order, history, lastCall, policy, pc, attempt,
          last_exception, calls, delays, pending, on_retry_calls, result,
          origin, descriptor, schema_out, instance, heap, registry, refs,
          lastUse, a_pc, a_attempt, a_last_exception, a_calls, a_delays,
          a_pending, a_on_retry_calls, a_result, a_target, other_ran,
          thread_ran, is_enabled, session_id, current_trace_file, events,
          files, logged, lastLog, listing, seen, closure, wrapped_as, cs>>

(***************************************************************************)
(* Bounds                                                                  *)
(***************************************************************************)
MaxOps == 2
MaxAttemptsBound == 3
MaxBaseDelay == 2
MaxDelayBound == 3
MaxGrowth == 2
MaxParams == 2
MaxRefs == 2
MaxOtherSteps == 2
MaxEvents == 3

\* Python's None
None == [none |-> TRUE]

(***************************************************************************)
(* Python exception classes and isinstance                                 *)
(***************************************************************************)
ExcParent(cls) ==
    CASE cls = "ConnectionError" -> "OSError"
      [] cls = "TimeoutError" -> "OSError"
      [] cls = "OSError" -> "Exception"
      [] cls = "ValueError" -> "Exception"
      [] cls = "TypeError" -> "Exception"
      [] cls = "RuntimeError" -> "Exception"
      [] cls = "KeyError" -> "Exception"
      [] cls = "Exception" -> "BaseException"
      [] cls = "BaseException" -> "object"
      [] cls = "KeyboardInterrupt" -> "BaseException"
      [] cls = "SystemExit" -> "BaseException"
      [] OTHER -> "object"

RECURSIVE IsSubclass(_, _)
IsSubclass(cls, base) ==
    IF cls = base THEN TRUE
    ELSE IF cls = "object" THEN FALSE
    ELSE IsSubclass(ExcParent(cls), base)

Return(v) == [kind |-> "return", value |-> v]
Raise(c, m) == [kind |-> "raise", exc |-> [cls |-> c, msg |-> m]]

(***************************************************************************)
(* Tool implementations handed to register: what the callable does when    *)
(* it is called with keyword arguments keys.                               *)
(***************************************************************************)
Impls == {"list_files", "list_files_v2", "failing_tool", "interrupted_tool"}

\* the keyword arguments the signature of the implementation accepts
ImplAccepts(f) == IF f = "delete_file" THEN {"filepath"} ELSE {"path"}

\* the arguments of the signature that have no default
ImplRequires(f) == IF f = "delete_file" THEN {"filepath"} ELSE {}

ImplBody(f) ==
    CASE f = "list_files" -> Return(<<"listing">>)
      [] f = "list_files_v2" -> Return(<<"listing v2">>)
      [] f = "failing_tool" -> Raise("ValueError", "boom")
      [] f = "interrupted_tool" -> Raise("KeyboardInterrupt", "")
      [] f = "delete_file" -> Return(<<"deleted">>)

\* func(**kwargs): binding the keyword arguments, then the body
\* Variant: the implementation takes **kwargs and binds whatever it is given
CallFunction_AnyArguments(f, keys) == ImplBody(f)

CallFunction(f, keys) ==
    IF ~(keys \subseteq ImplAccepts(f))
    THEN Raise("TypeError", "got an unexpected keyword argument")
    ELSE IF ~(ImplRequires(f) \subseteq keys)
    THEN Raise("TypeError", "missing 1 required positional argument")
    ELSE ImplBody(f)

(***************************************************************************)
(* ToolRegistry                                                            *)
(***************************************************************************)
Names == {"ls", "x"}
RequestNames == Names \cup {"nonexistent"}
\* keyword-argument key sets of the requests
ArgKeySets == {{}, {"path"}, {"name"}, {"self"}}
ExecuteKeySets == {{}, {"path"}, {"recursive"}}

Tool(name, description, function, parameters) ==
    [name |-> name, description |-> description, function |-> function,
     parameters |-> parameters]

\* Tool.to_json_schema: the for loop over self.parameters from index i on
RECURSIVE SchemaLoop(_, _, _, _)
SchemaLoop(params, i, properties, required) ==
    IF i > Len(params)
    THEN [type |-> "object", properties |-> properties,
          required |-> required]
    ELSE SchemaLoop(params, i + 1,
             [n \in (DOMAIN properties) \cup {params[i].name} |->
                 IF n = params[i].name
                 THEN [type |-> params[i].type,
                       description |-> params[i].description]
                 ELSE properties[n]],
             IF params[i].required
             THEN Append(required, params[i].name) ELSE required)

\* Variant: a parameter that has a default is left out of required
RECURSIVE SchemaLoop_DefaultOptional(_, _, _, _)
SchemaLoop_DefaultOptional(params, i, properties, required) ==
    IF i > Len(params)
    THEN [type |-> "object", properties |-> properties,
          required |-> required]
    ELSE SchemaLoop_DefaultOptional(params, i + 1,
             [n \in (DOMAIN properties) \cup {params[i].name} |->
                 IF n = params[i].name
                 THEN [type |-> params[i].type,
                       description |-> params[i].description]
                 ELSE properties[n]],
             IF params[i].required /\ params[i].default = None
             THEN Append(required, params[i].name) ELSE required)

ToJsonSchema_DefaultOptional(tool) ==
    SchemaLoop_DefaultOptional(tool.parameters, 1, << >>, << >>)

\* Tool.to_json_schema(self)
ToJsonSchema(tool) == SchemaLoop(tool.parameters, 1, << >>, << >>)

\* Variant: self._tools.setdefault(name, tool), the first registration wins
RegisterTools_KeepFirst(tls, name, tool) ==
    [n \in (DOMAIN tls) \cup {name} |->
        IF n \in DOMAIN tls THEN tls[n] ELSE tool]

\* self._tools[name] = tool
RegisterTools(tls, name, tool) ==
    [n \in (DOMAIN tls) \cup {name} |-> IF n = name THEN tool ELSE tls[n]]

\* Variant: clear() rebinds nothing and empties nothing
ClearTools_Noop(tls) == tls

\* self._tools.clear()
ClearTools(tls) == << >>

\* list(self._tools.values()): the values in the insertion order of the dict
ListTools(tls, ord) == [i \in 1..Len(ord) |-> tls[ord[i]]]

\* llm_client.ToolDefinition(name=, description=, parameters=, function=)
ToolDefinition(name, description, parameters, function) ==
    [name |-> name, description |-> description, parameters |-> parameters,
     function |-> function]

\* Variant: list_tools hands out the live view self._tools.values()
ListResult_View(tls, ord) == [view |-> TRUE, items |-> << >>]

\* list_tools: the list object the caller receives, a new list
ListResult(tls, ord) == [view |-> FALSE, items |-> ListTools(tls, ord)]

\* what the caller reads in a list object obtained from list_tools
ListContents(lst, tls, ord) ==
    IF lst.view THEN ListTools(tls, ord) ELSE lst.items

\* Variant: the declared parameter list is exported as it is
GetToolsForLlm_RawParameters(tls, ord) ==
    [i \in 1..Len(ord) |->
        ToolDefinition(tls[ord[i]].name, tls[ord[i]].description,
                       tls[ord[i]].parameters, tls[ord[i]].function)]

\* ToolRegistry.get_tools_for_llm
GetToolsForLlm(tls, ord) ==
    [i \in 1..Len(ord) |->
        ToolDefinition(tls[ord[i]].name, tls[ord[i]].description,
                       ToJsonSchema(tls[ord[i]]), tls[ord[i]].function)]

\* self._tools.get(name)
GetTool(tls, name) == IF name \in DOMAIN tls THEN tls[name] ELSE None

\* Tool.execute(self, **kwargs)
ToolExecute(tool, keys) == CallFunction(tool.function, keys)

NotFoundMessage(name) == <<"Error: Tool '", name, "' not found.">>
ExecErrorMessage(name, msg) == <<"Error executing '", name, "': ", msg>>

\* Variant: no try/except around tool.execute, a failure of the tool escapes
RegistryExecute_NoCatch(tls, name, keys) ==
    IF GetTool(tls, name) = None
    THEN [outcome |-> Return(NotFoundMessage(name)), lookups |-> 1,
          invoked |-> << >>]
    ELSE [outcome |-> ToolExecute(GetTool(tls, name), keys), lookups |-> 1,
          invoked |-> <<GetTool(tls, name).function>>]

\* Variant: self._tools[name] instead of self.get(name), KeyError when absent
RegistryExecute_KeyError(tls, name, keys) ==
    IF GetTool(tls, name) = None
    THEN [outcome |-> Raise("KeyError", name), lookups |-> 1,
          invoked |-> << >>]
    ELSE LET r == ToolExecute(GetTool(tls, name), keys)
         IN [outcome |-> IF r.kind = "raise" /\ IsSubclass(r.exc.cls, "Exception")
                         THEN Return(ExecErrorMessage(name, r.exc.msg))
                         ELSE r,
             lookups |-> 1,
             invoked |-> <<GetTool(tls, name).function>>]

\* Variant: except BaseException, every failure of the tool is converted
RegistryExecute_CatchAll(tls, name, keys) ==
    IF GetTool(tls, name) = None
    THEN [outcome |-> Return(NotFoundMessage(name)), lookups |-> 1,
          invoked |-> << >>]
    ELSE LET r == ToolExecute(GetTool(tls, name), keys)
         IN [outcome |-> IF r.kind = "raise"
                         THEN Return(ExecErrorMessage(name, r.exc.msg))
                         ELSE r,
             lookups |-> 1,
             invoked |-> <<GetTool(tls, name).function>>]

\* ToolRegistry.execute(name, **kwargs), kwargs already bound: the outcome,
\* the number of registry lookups and the implementations invoked
RegistryExecute(tls, name, keys) ==
    IF GetTool(tls, name) = None
    THEN [outcome |-> Return(NotFoundMessage(name)), lookups |-> 1,
          invoked |-> << >>]
    ELSE LET r == ToolExecute(GetTool(tls, name), keys)
         IN [outcome |-> IF r.kind = "raise" /\ IsSubclass(r.exc.cls, "Exception")
                         THEN Return(ExecErrorMessage(name, r.exc.msg))
                         ELSE r,
             lookups |-> 1,
             invoked |-> <<GetTool(tls, name).function>>]

\* the levels of the records ToolRegistry.execute hands to its logger
ExecuteLogs(tls, name, keys) ==
    IF GetTool(tls, name) = None THEN <<"debug", "warning">>
    ELSE LET r == ToolExecute(GetTool(tls, name), keys)
         IN IF r.kind = "return" THEN <<"debug", "debug">>
            ELSE IF IsSubclass(r.exc.cls, "Exception")
            THEN <<"debug", "error">>
            ELSE <<"debug">>

(***************************************************************************)
(* execute_tool_call                                                       *)
(***************************************************************************)
\* Python values that "arguments" can hold or json.loads can produce
PyDict(keys) == [type |-> "dict", keys |-> keys]
PyStr(text) == [type |-> "str", text |-> text]
PyOther(t) == [type |-> t]

\* Serialized argument strings an LLM sends
JsonTexts == {"{not valid json", "", "{\"path\": \".\"}", "{\"name\": \"x\"}",
              "[1, 2]", "42", "null", "\"abc\""}

\* json.loads(text): [ok |-> FALSE] stands for json.JSONDecodeError
JsonLoads(text) ==
    CASE text = "{\"path\": \".\"}" -> [ok |-> TRUE, value |-> PyDict({"path"})]
      [] text = "{\"name\": \"x\"}" -> [ok |-> TRUE, value |-> PyDict({"name"})]
      [] text = "[1, 2]" -> [ok |-> TRUE, value |-> PyOther("list")]
      [] text = "42" -> [ok |-> TRUE, value |-> PyOther("int")]
      [] text = "null" -> [ok |-> TRUE, value |-> PyOther("NoneType")]
      [] text = "\"abc\"" -> [ok |-> TRUE, value |-> PyStr("abc")]
      [] OTHER -> [ok |-> FALSE]

ArgumentValues ==
    {PyDict(k) : k \in ArgKeySets} \cup {PyStr(t) : t \in JsonTexts}

\* A request is a dict that may lack either key
ToolCalls ==
    [has_name : {TRUE}, name : RequestNames, has_arguments : {TRUE},
     arguments : ArgumentValues]
    \cup [has_name : {FALSE}, has_arguments : {TRUE}, arguments : ArgumentValues]
    \cup [has_name : {TRUE}, name : RequestNames, has_arguments : {FALSE}]
    \cup [has_name : {FALSE}, has_arguments : {FALSE}]

\* tool_call.get("name", "")
ToolCallName(tc) == IF tc.has_name THEN tc.name ELSE ""

\* tool_call.get("arguments", {})
ToolCallArguments(tc) == IF tc.has_arguments THEN tc.arguments ELSE PyDict({})

InvalidJsonMessage(name) ==
    <<"Error: Invalid JSON arguments for tool '", name, "'">>

\* registry.execute(name, **arguments): Python binds the call before the
\* body of execute runs
BoundExecute(tls, name, arguments) ==
    IF arguments.type # "dict"
    THEN [outcome |-> Raise("TypeError", "argument after ** must be a mapping"),
          lookups |-> 0, invoked |-> << >>]
    ELSE IF arguments.keys \cap {"self", "name"} # {}
    THEN [outcome |-> Raise("TypeError", "got multiple values for argument"),
          lookups |-> 0, invoked |-> << >>]
    ELSE RegistryExecute(tls, name, arguments.keys)

\* Variant: malformed JSON falls back to empty arguments and is dispatched
ExecuteToolCallResult_Fallback(tls, tc) ==
    LET name == ToolCallName(tc)
        arguments == ToolCallArguments(tc)
    IN IF arguments.type = "str"
       THEN IF JsonLoads(arguments.text).ok
            THEN BoundExecute(tls, name, JsonLoads(arguments.text).value)
            ELSE BoundExecute(tls, name, PyDict({}))
       ELSE BoundExecute(tls, name, arguments)

ExecuteToolCallResult(tls, tc) ==
    LET name == ToolCallName(tc)
        arguments == ToolCallArguments(tc)
    IN IF arguments.type = "str"
       THEN IF JsonLoads(arguments.text).ok
            THEN BoundExecute(tls, name, JsonLoads(arguments.text).value)
            ELSE [outcome |-> Return(InvalidJsonMessage(name)),
                  lookups |-> 0, invoked |-> << >>]
       ELSE BoundExecute(tls, name, arguments)

NoCall == [op |-> "none"]

\* Variant: the registry is a list, register appends without looking
Register_AlwaysAppend(name, description, parameters, func) ==
    /\ Len(history) < MaxOps
    /\ tools' = RegisterTools(tools, name,
                              Tool(name, description, func, parameters))
    /\ order' = Append(order, name)
    /\ history' = Append(history,
                          <<"register", name, description, parameters, func>>)
    /\ lastCall' = [op |-> "register", name |-> name, before |-> tools,
                    outcome |-> Return(func)]
    /\ UNCHANGED <<retryVars, origin, otherVars>>

Register(name, description, parameters, func) ==
    /\ Len(history) < MaxOps
    /\ tools' = RegisterTools(tools, name,
                              Tool(name, description, func, parameters))
    /\ order' = IF name \in DOMAIN tools THEN order ELSE Append(order, name)
    /\ history' = Append(history,
                          <<"register", name, description, parameters, func>>)
    /\ lastCall' = [op |-> "register", name |-> name, before |-> tools,
                    outcome |-> Return(func)]
    /\ UNCHANGED <<retryVars, origin, otherVars>>

Clear ==
    /\ Len(history) < MaxOps
    /\ tools' = ClearTools(tools)
    /\ order' = << >>
    /\ history' = Append(history, <<"clear">>)
    /\ lastCall' = [op |-> "clear", before |-> tools, outcome |-> Return(None)]
    /\ UNCHANGED <<retryVars, origin, otherVars>>

Get(name) ==
    /\ lastCall' = [op |-> "get", name |-> name, before |-> tools,
                    outcome |-> Return(GetTool(tools, name))]
    /\ UNCHANGED <<tools, order, history>>
    /\ UNCHANGED <<retryVars, origin, otherVars>>

Execute(name, keys) ==
    /\ lastCall' = [op |-> "execute", name |-> name, keys |-> keys,
                    before |-> tools,
                    logs |-> ExecuteLogs(tools, name, keys),
                    lookups |-> RegistryExecute(tools, name, keys).lookups,
                    invoked |-> RegistryExecute(tools, name, keys).invoked,
                    outcome |-> RegistryExecute(tools, name, keys).outcome]
    /\ UNCHANGED <<tools, order, history>>
    /\ UNCHANGED <<retryVars, origin, otherVars>>

ExecuteToolCall(tc) ==
    /\ lastCall' = [op |-> "execute_tool_call", request |-> tc,
                    before |-> tools,
                    lookups |-> ExecuteToolCallResult(tools, tc).lookups,
                    invoked |-> ExecuteToolCallResult(tools, tc).invoked,
                    outcome |-> ExecuteToolCallResult(tools, tc).outcome]
    /\ UNCHANGED <<tools, order, history>>
    /\ UNCHANGED <<retryVars, origin, otherVars>>

RegInit ==
    /\ tools = << >>
    /\ order = << >>
    /\ history = << >>
    /\ lastCall = NoCall

RetryIdle ==
    /\ policy = None
    /\ pc = "idle"
    /\ attempt = 0
    /\ last_exception = None
    /\ calls = << >>
    /\ delays = << >>
    /\ pending = None
    /\ on_retry_calls = << >>
    /\ result = None
    /\ origin = None

(***************************************************************************)
(* retry: the blocking wrapper                                             *)
(*                                                                         *)
(* Durations are integers in units of 1/Scale second, so that the jitter   *)
(* factor 0.5 + random.random() is n/Scale for an integer n.               *)
(***************************************************************************)
Scale == 8
\* samples of 0.5 + random.random(), a real of [0.5, 1.5)
JitterNumerators == {4, 8, 10}

ExceptionSets == {{"Exception"}, {"ValueError"},
                  {"ConnectionError", "TimeoutError", "OSError"}}
OnRetryKinds == {"none", "returns", "raises"}

Policies ==
    [max_attempts : (-1)..MaxAttemptsBound,
     base_delay : {Scale * i : i \in 0..MaxBaseDelay},
     max_delay : {Scale * i : i \in 0..MaxDelayBound},
     exponential_base : 0..MaxGrowth,
     jitter : BOOLEAN,
     exceptions : ExceptionSets,
     on_retry : OnRetryKinds]

\* what one invocation of the target does
TargetOutcomes == {"ok", "ValueError", "ConnectionError"}

\* the exception object raised by the k-th invocation of the target
TargetError(cls, k) == [cls |-> cls, msg |-> "error", id |-> k]
CallbackError == [cls |-> "RuntimeError", msg |-> "callback failed", id |-> 0]

\* func(*args, **kwargs) at its k-th invocation
TargetCall(out, k) ==
    IF out = "ok" THEN Return(k)
    ELSE [kind |-> "raise", exc |-> TargetError(out, k)]

RECURSIVE Pow(_, _)
Pow(b, e) == IF e = 0 THEN 1 ELSE b * Pow(b, e - 1)

Min(a, b) == IF a <= b THEN a ELSE b

\* Variant: except Exception as e, whatever the configured kinds
Qualifies_AnyException(exc, exceptions) == IsSubclass(exc.cls, "Exception")

\* except exceptions as e
Qualifies(exc, exceptions) == \E c \in exceptions : IsSubclass(exc.cls, c)

\* Variant: the test never succeeds, the final failure is followed by a delay
IsLastAttempt_Never(p, k) == k > p.max_attempts

\* if attempt == max_attempts
IsLastAttempt(p, k) == k = p.max_attempts

\* Variant: exponent attempt instead of attempt - 1
BackoffDelay_ExponentAttempt(p, k) ==
    Min(p.base_delay * Pow(p.exponential_base, k), p.max_delay)

\* min(base_delay * (exponential_base ** (attempt - 1)), max_delay)
BackoffDelay(p, k) ==
    Min(p.base_delay * Pow(p.exponential_base, k - 1), p.max_delay)

\* Variant: the cap is applied after the jitter factor
JitterDelay_CapAfter(p, delay, n) ==
    IF p.jitter THEN Min((delay * n) \div Scale, p.max_delay) ELSE delay

\* if jitter: delay = delay * (0.5 + random.random())
JitterDelay(p, delay, n) == IF p.jitter THEN (delay * n) \div Scale ELSE delay

\* the wrapped callable is called
Call ==
    /\ pc = "idle"
    /\ policy' \in Policies
    /\ origin' = [via |-> "retry"]
    /\ pc' = "loop"
    /\ attempt' = 1
    /\ last_exception' = None
    /\ UNCHANGED <<calls, delays, pending, on_retry_calls, result>>
    /\ UNCHANGED <<regVars, otherVars>>

\* retry(max_attempts, base_delay, max_delay, exponential_base, jitter,
\* exceptions, on_retry): the values the returned decorator closes over
Retry(max_attempts, base_delay, max_delay, exponential_base, jitter, exceptions, on_retry) ==
    [max_attempts |-> max_attempts, base_delay |-> base_delay,
     max_delay |-> max_delay, exponential_base |-> exponential_base,
     jitter |-> jitter, exceptions |-> exceptions, on_retry |-> on_retry]

\* RetryConfig.__init__
RetryConfigInit(max_attempts, base_delay, max_delay, exponential_base, jitter) ==
    [max_attempts |-> max_attempts, base_delay |-> base_delay,
     max_delay |-> max_delay, exponential_base |-> exponential_base,
     jitter |-> jitter]

\* Variant: jitter is not passed on, retry uses its default jitter=True
ConfigDecorator_DefaultJitter(self, exceptions) ==
    Retry(self.max_attempts, self.base_delay, self.max_delay,
          self.exponential_base, TRUE, exceptions, "none")

\* RetryConfig.decorator(self, exceptions)
ConfigDecorator(self, exceptions) ==
    Retry(self.max_attempts, self.base_delay, self.max_delay,
          self.exponential_base, self.jitter, exceptions, "none")

Configs ==
    [max_attempts : 0..MaxAttemptsBound,
     base_delay : {Scale * i : i \in 0..MaxBaseDelay},
     max_delay : {Scale * i : i \in 0..MaxDelayBound},
     exponential_base : 0..MaxGrowth,
     jitter : BOOLEAN]

\* the callable wrapped by RetryConfig(...).decorator(exceptions) is called
CallConfig ==
    /\ pc = "idle"
    /\ \E c \in Configs, ex \in ExceptionSets :
          /\ policy' = ConfigDecorator(
                 RetryConfigInit(c.max_attempts, c.base_delay, c.max_delay,
                                 c.exponential_base, c.jitter), ex)
          /\ origin' = [via |-> "config", config |-> c, exceptions |-> ex]
    /\ pc' = "loop"
    /\ attempt' = 1
    /\ last_exception' = None
    /\ UNCHANGED <<calls, delays, pending, on_retry_calls, result>>
    /\ UNCHANGED <<regVars, otherVars>>

\* Variant: the network preset retries on every Exception
RetryNetwork_AllExceptions ==
    Retry(5, Scale \div 2, 60 * Scale, 2, TRUE, {"Exception"}, "none")

\* retry_network = retry(max_attempts=5, base_delay=0.5, max_delay=60.0,
\*     exceptions=(ConnectionError, TimeoutError, OSError))
RetryNetwork ==
    Retry(5, Scale \div 2, 60 * Scale, 2, TRUE,
          {"ConnectionError", "TimeoutError", "OSError"}, "none")

\* retry_api = retry(max_attempts=3, base_delay=1.0, max_delay=30.0,
\*     exceptions=(Exception,))
RetryApi == Retry(3, Scale, 30 * Scale, 2, TRUE, {"Exception"}, "none")

\* what one invocation of a target wrapped by a preset does
PresetOutcomes == {"ok", "ValueError", "ConnectionError", "TimeoutError",
                   "OSError", "KeyboardInterrupt"}

\* a callable wrapped by @retry_api or @retry_network is called
CallPreset ==
    /\ pc = "idle"
    /\ \E name \in {"retry_api", "retry_network"} :
          /\ policy' = IF name = "retry_api" THEN RetryApi ELSE RetryNetwork
          /\ origin' = [via |-> name]
    /\ pc' = "loop"
    /\ attempt' = 1
    /\ last_exception' = None
    /\ UNCHANGED <<calls, delays, pending, on_retry_calls, result>>
    /\ UNCHANGED <<regVars, otherVars>>

\* Variant: the result is kept but the loop goes on to the next attempt
Invoke_NoReturn(out) ==
    /\ pc = "loop"
    /\ attempt <= policy.max_attempts
    /\ LET r == TargetCall(out, Len(calls) + 1)
       IN /\ calls' = Append(calls, r)
          /\ IF r.kind = "return"
             THEN /\ result' = r
                  /\ pc' = "loop"
                  /\ attempt' = attempt + 1
                  /\ UNCHANGED last_exception
             ELSE IF Qualifies(r.exc, policy.exceptions)
             THEN /\ last_exception' = r.exc
                  /\ pc' = "except"
                  /\ UNCHANGED <<result, attempt>>
             ELSE /\ result' = r
                  /\ pc' = "done"
                  /\ UNCHANGED <<last_exception, attempt>>
    /\ UNCHANGED <<policy, delays, pending, on_retry_calls>>
    /\ UNCHANGED <<regVars, origin, otherVars>>

\* try: return func(*args, **kwargs)
Invoke(out) ==
    /\ pc = "loop"
    /\ attempt <= policy.max_attempts
    /\ LET r == TargetCall(out, Len(calls) + 1)
       IN /\ calls' = Append(calls, r)
          /\ IF r.kind = "return"
             THEN /\ result' = r
                  /\ pc' = "done"
                  /\ UNCHANGED last_exception
             ELSE IF Qualifies(r.exc, policy.exceptions)
             THEN /\ last_exception' = r.exc
                  /\ pc' = "except"
                  /\ UNCHANGED result
             ELSE /\ result' = r
                  /\ pc' = "done"
                  /\ UNCHANGED last_exception
    /\ UNCHANGED <<policy, attempt, delays, pending, on_retry_calls>>
    /\ UNCHANGED <<regVars, origin, otherVars>>

\* the except block up to the computation of the delay
Except(n) ==
    /\ pc = "except"
    /\ IF IsLastAttempt(policy, attempt)
       THEN /\ result' = [kind |-> "raise", exc |-> last_exception]
            /\ pc' = "done"
            /\ UNCHANGED pending
       ELSE /\ pending' = [delay |-> JitterDelay(policy,
                                        BackoffDelay(policy, attempt), n),
                           factor |-> IF policy.jitter THEN n ELSE Scale,
                           attempt |-> attempt]
            /\ pc' = IF policy.on_retry # "none" THEN "on_retry" ELSE "sleep"
            /\ UNCHANGED result
    /\ UNCHANGED <<policy, attempt, last_exception, calls, delays,
                   on_retry_calls>>
    /\ UNCHANGED <<regVars, origin, otherVars>>

\* Variant: the callback is given the zero-based index of the attempt
OnRetry_ZeroBased ==
    /\ pc = "on_retry"
    /\ on_retry_calls' =
          Append(on_retry_calls, <<last_exception, attempt - 1>>)
    /\ IF policy.on_retry = "raises"
       THEN /\ result' = [kind |-> "raise", exc |-> CallbackError]
            /\ pc' = "done"
       ELSE /\ pc' = "sleep"
            /\ UNCHANGED result
    /\ UNCHANGED <<policy, attempt, last_exception, calls, delays, pending>>
    /\ UNCHANGED <<regVars, origin, otherVars>>

\* Variant: a failure of the callback is swallowed and the retry goes on
OnRetry_SwallowFailure ==
    /\ pc = "on_retry"
    /\ on_retry_calls' = Append(on_retry_calls, <<last_exception, attempt>>)
    /\ pc' = "sleep"
    /\ UNCHANGED <<policy, attempt, last_exception, calls, delays, pending,
                   result>>
    /\ UNCHANGED <<regVars, origin, otherVars>>

\* if on_retry: on_retry(e, attempt)
OnRetry ==
    /\ pc = "on_retry"
    /\ on_retry_calls' = Append(on_retry_calls, <<last_exception, attempt>>)
    /\ IF policy.on_retry = "raises"
       THEN /\ result' = [kind |-> "raise", exc |-> CallbackError]
            /\ pc' = "done"
       ELSE /\ pc' = "sleep"
            /\ UNCHANGED result
    /\ UNCHANGED <<policy, attempt, last_exception, calls, delays, pending>>
    /\ UNCHANGED <<regVars, origin, otherVars>>

\* Variant: the loop is `while True`, the attempt number is not advanced
Sleep_NoAdvance ==
    /\ pc = "sleep"
    /\ delays' = Append(delays, pending)
    /\ pc' = "loop"
    /\ UNCHANGED <<policy, attempt, last_exception, calls, pending,
                   on_retry_calls, result>>
    /\ UNCHANGED <<regVars, origin, otherVars>>

\* time.sleep(delay), then the next iteration of the for loop
Sleep ==
    /\ pc = "sleep"
    /\ delays' = Append(delays, pending)
    /\ attempt' = attempt + 1
    /\ pc' = "loop"
    /\ UNCHANGED <<policy, last_exception, calls, pending, on_retry_calls,
                   result>>
    /\ UNCHANGED <<regVars, origin, otherVars>>

\* Variant: an exhausted loop without a failure raises RuntimeError
LoopExit_RaiseWhenEmpty ==
    /\ pc = "loop"
    /\ attempt > policy.max_attempts
    /\ result' = IF last_exception # None
                 THEN [kind |-> "raise", exc |-> last_exception]
                 ELSE Raise("RuntimeError", "no attempts")
    /\ pc' = "done"
    /\ UNCHANGED <<policy, attempt, last_exception, calls, delays, pending,
                   on_retry_calls>>
    /\ UNCHANGED <<regVars, origin, otherVars>>

\* range(1, max_attempts + 1) is exhausted: the code after the loop
LoopExit ==
    /\ pc = "loop"
    /\ attempt > policy.max_attempts
    /\ result' = IF last_exception # None
                 THEN [kind |-> "raise", exc |-> last_exception]
                 ELSE Return(None)
    /\ pc' = "done"
    /\ UNCHANGED <<policy, attempt, last_exception, calls, delays, pending,
                   on_retry_calls>>
    /\ UNCHANGED <<regVars, origin, otherVars>>

(***************************************************************************)
(* The wrapper of a coroutine function.  It is run on the outcomes and the *)
(* jitter samples that the call of the blocking wrapper met, once that     *)
(* call has ended, so that both wrappers see the same policy, the same     *)
(* sequence of target outcomes and the same random samples.                *)
(***************************************************************************)
Targets == {"def", "async def"}

\* asyncio.iscoroutinefunction(func)
IsCoroutineFunction(target) == target = "async def"

\* return async_wrapper if is_async else sync_wrapper
Decorator(target) ==
    IF IsCoroutineFunction(target) THEN "async_wrapper" ELSE "sync_wrapper"

\* what the k-th invocation of the target did in the blocking call
OutcomeOf(c) == IF c.kind = "return" THEN "ok" ELSE c.exc.cls

\* the sample of random.random() drawn for the delay after attempt k
SampleAt(k) ==
    IF k \in DOMAIN delays THEN delays[k].factor
    ELSE IF pending # None /\ pending.attempt = k THEN pending.factor
    ELSE 0

AsyncIdle ==
    /\ a_pc = "idle"
    /\ a_attempt = 0
    /\ a_last_exception = None
    /\ a_calls = << >>
    /\ a_delays = << >>
    /\ a_pending = None
    /\ a_on_retry_calls = << >>
    /\ a_result = None
    /\ a_target = None

\* the wrapped coroutine function is called and awaited
A_Call ==
    /\ pc = "done"
    /\ a_pc = "idle"
    /\ \E t \in Targets :
          /\ Decorator(t) = "async_wrapper"
          /\ a_target' = [target |-> t, wrapper |-> Decorator(t)]
    /\ a_pc' = "loop"
    /\ a_attempt' = 1
    /\ a_last_exception' = None
    /\ UNCHANGED <<a_calls, a_delays, a_pending, a_on_retry_calls, a_result>>
    /\ UNCHANGED <<regVars, retryVars, origin, schemaVars, singletonVars,
                   schedVars, loggerVars,
                   catalogVars,
                   interVars>>

\* try: return await func(*args, **kwargs)
A_Invoke ==
    /\ a_pc = "loop"
    /\ a_attempt <= policy.max_attempts
    /\ IF Len(a_calls) + 1 \notin DOMAIN calls
       THEN /\ a_pc' = "starved"
            /\ UNCHANGED <<a_calls, a_result, a_last_exception>>
       ELSE LET r == TargetCall(OutcomeOf(calls[Len(a_calls) + 1]),
                                Len(a_calls) + 1)
            IN /\ a_calls' = Append(a_calls, r)
               /\ IF r.kind = "return"
                  THEN /\ a_result' = r
                       /\ a_pc' = "done"
                       /\ UNCHANGED a_last_exception
                  ELSE IF Qualifies(r.exc, policy.exceptions)
                  THEN /\ a_last_exception' = r.exc
                       /\ a_pc' = "except"
                       /\ UNCHANGED a_result
                  ELSE /\ a_result' = r
                       /\ a_pc' = "done"
                       /\ UNCHANGED a_last_exception
    /\ UNCHANGED <<a_attempt, a_delays, a_pending, a_on_retry_calls,
                   a_target>>
    /\ UNCHANGED <<regVars, retryVars, origin, schemaVars, singletonVars,
                   schedVars, loggerVars,
                   catalogVars,
                   interVars>>

\* Variant: the coroutine wrapper never calls on_retry
A_Except_NoCallback ==
    /\ a_pc = "except"
    /\ IF IsLastAttempt(policy, a_attempt)
       THEN /\ a_result' = [kind |-> "raise", exc |-> a_last_exception]
            /\ a_pc' = "done"
            /\ UNCHANGED a_pending
       ELSE IF SampleAt(a_attempt) = 0
       THEN /\ a_pc' = "starved"
            /\ UNCHANGED <<a_result, a_pending>>
       ELSE /\ a_pending' = [delay |-> JitterDelay(policy,
                                          BackoffDelay(policy, a_attempt),
                                          SampleAt(a_attempt)),
                             factor |-> SampleAt(a_attempt),
                             attempt |-> a_attempt]
            /\ a_pc' = "sleep"
            /\ UNCHANGED a_result
    /\ UNCHANGED <<a_attempt, a_last_exception, a_calls, a_delays,
                   a_on_retry_calls, a_target>>
    /\ UNCHANGED <<regVars, retryVars, origin, schemaVars, singletonVars,
                   schedVars, loggerVars,
                   catalogVars,
                   interVars>>

\* the except block of async_wrapper up to the computation of the delay
A_Except ==
    /\ a_pc = "except"
    /\ IF IsLastAttempt(policy, a_attempt)
       THEN /\ a_result' = [kind |-> "raise", exc |-> a_last_exception]
            /\ a_pc' = "done"
            /\ UNCHANGED a_pending
       ELSE IF SampleAt(a_attempt) = 0
       THEN /\ a_pc' = "starved"
            /\ UNCHANGED <<a_result, a_pending>>
       ELSE /\ a_pending' = [delay |-> JitterDelay(policy,
                                          BackoffDelay(policy, a_attempt),
                                          SampleAt(a_attempt)),
                             factor |-> SampleAt(a_attempt),
                             attempt |-> a_attempt]
            /\ a_pc' = IF policy.on_retry # "none"
                       THEN "on_retry" ELSE "sleep"
            /\ UNCHANGED a_result
    /\ UNCHANGED <<a_attempt, a_last_exception, a_calls, a_delays,
                   a_on_retry_calls, a_target>>
    /\ UNCHANGED <<regVars, retryVars, origin, schemaVars, singletonVars,
                   schedVars, loggerVars,
                   catalogVars,
                   interVars>>

\* if on_retry: on_retry(e, attempt), in async_wrapper
A_OnRetry ==
    /\ a_pc = "on_retry"
    /\ a_on_retry_calls' =
          Append(a_on_retry_calls, <<a_last_exception, a_attempt>>)
    /\ IF policy.on_retry = "raises"
       THEN /\ a_result' = [kind |-> "raise", exc |-> CallbackError]
            /\ a_pc' = "done"
       ELSE /\ a_pc' = "sleep"
            /\ UNCHANGED a_result
    /\ UNCHANGED <<a_attempt, a_last_exception, a_calls, a_delays,
                   a_pending, a_target>>
    /\ UNCHANGED <<regVars, retryVars, origin, schemaVars, singletonVars,
                   schedVars, loggerVars,
                   catalogVars,
                   interVars>>

\* await asyncio.sleep(delay) completes, then the next iteration of the loop
A_Sleep ==
    /\ a_pc = "sleep"
    /\ a_delays' = Append(a_delays, a_pending)
    /\ a_attempt' = a_attempt + 1
    /\ a_pc' = "loop"
    /\ UNCHANGED <<a_last_exception, a_calls, a_pending, a_on_retry_calls,
                   a_result, a_target>>
    /\ UNCHANGED <<regVars, retryVars, origin, schemaVars, singletonVars,
                   schedVars, loggerVars,
                   catalogVars,
                   interVars>>

\* range(1, max_attempts + 1) is exhausted in async_wrapper
A_LoopExit ==
    /\ a_pc = "loop"
    /\ a_attempt > policy.max_attempts
    /\ a_result' = IF a_last_exception # None
                   THEN [kind |-> "raise", exc |-> a_last_exception]
                   ELSE Return(None)
    /\ a_pc' = "done"
    /\ UNCHANGED <<a_attempt, a_last_exception, a_calls, a_delays,
                   a_pending, a_on_retry_calls, a_target>>
    /\ UNCHANGED <<regVars, retryVars, origin, schemaVars, singletonVars,
                   schedVars, loggerVars,
                   catalogVars,
                   interVars>>

(***************************************************************************)
(* What else runs while a wrapper waits: the other tasks of the event loop *)
(* that runs the coroutine wrapper, and the other work of the thread that  *)
(* called the blocking wrapper.                                            *)
(***************************************************************************)
\* Variant: both wrappers wait with time.sleep
SleepCall_AlwaysBlocking(wrapper) == "time.sleep"

\* await asyncio.sleep(delay) in async_wrapper, time.sleep(delay) in
\* sync_wrapper
SleepCall(wrapper) ==
    IF wrapper = "async_wrapper" THEN "asyncio.sleep" ELSE "time.sleep"

\* awaiting asyncio.sleep suspends the task and returns control to the event
\* loop; time.sleep keeps the calling thread inside the call
Suspends(call) == call = "asyncio.sleep"

SchedInit ==
    /\ other_ran = << >>
    /\ thread_ran = << >>

\* the event loop runs a step of another task: the wrapper's task is not
\* started, has ended, or is suspended in its wait between attempts
OtherTaskStep ==
    /\ Len(other_ran) < MaxOtherSteps
    /\ \/ a_pc \in {"idle", "done"}
       \/ a_pc = "sleep" /\ Suspends(SleepCall("async_wrapper"))
    /\ other_ran' = Append(other_ran, a_pc)
    /\ UNCHANGED thread_ran
    /\ UNCHANGED <<regVars, retryVars, origin, schemaVars, singletonVars,
                   asyncVars, loggerVars,
                   catalogVars,
                   interVars>>

\* the thread that calls the blocking wrapper does other work: it is not
\* inside the call, or the wait of the call has given the thread up
ThreadOtherWork ==
    /\ Len(thread_ran) < MaxOtherSteps
    /\ \/ pc \in {"idle", "done"}
       \/ pc = "sleep" /\ Suspends(SleepCall("sync_wrapper"))
    /\ thread_ran' = Append(thread_ran, pc)
    /\ UNCHANGED other_ran
    /\ UNCHANGED <<regVars, retryVars, origin, schemaVars, singletonVars,
                   asyncVars, loggerVars,
                   catalogVars,
                   interVars>>

NextConventions ==
    \/ Call
    \/ \E out \in TargetOutcomes : Invoke(out)
    \/ \E n \in JitterNumerators : Except(n)
    \/ OnRetry
    \/ Sleep
    \/ LoopExit
    \/ A_Call
    \/ A_Invoke
    \/ A_Except
    \/ A_OnRetry
    \/ A_Sleep
    \/ A_LoopExit

NextScheduling ==
    \/ CallPreset
    \/ \E out \in TargetOutcomes : Invoke(out)
    \/ \E n \in JitterNumerators : Except(n)
    \/ Sleep
    \/ A_Call
    \/ A_Invoke
    \/ A_Except
    \/ A_Sleep
    \/ OtherTaskStep
    \/ ThreadOtherWork

(***************************************************************************)
(* ReasoningLogger.  A payload value is [type |-> "dict" or "list",        *)
(* values |-> the types of the values it holds]; the file system maps a    *)
(* path to what the last write left there and accepts every write.         *)
(***************************************************************************)
\* the types json.dump can encode
JsonTypes == {"str", "int", "float", "bool", "NoneType", "dict", "list"}

\* json.dump raises TypeError on a value of any other type
Dumpable(v) == \A i \in DOMAIN v.values : v.values[i] \in JsonTypes

\* the payloads of the Any-typed parameters tool_calls, usage and arguments
Payloads == {[type |-> "dict", values |-> << >>],
             [type |-> "dict", values |-> <<"int">>],
             [type |-> "dict", values |-> <<"Path">>]}

\* datetime.now().strftime("%Y%m%d_%H%M%S") at the start of the session
Timestamps == {"20260101_000000", "20260101_000001"}

EventDumpable(e) ==
    CASE e.event = "llm_response" -> Dumpable(e.tool_calls) /\ Dumpable(e.usage)
      [] e.event = "tool_result" -> Dumpable(e.arguments)
      [] OTHER -> TRUE

\* the index of the first event json.dump cannot encode, 0 when there is none
RECURSIVE FirstBad(_, _)
FirstBad(evs, i) ==
    IF i > Len(evs) THEN 0
    ELSE IF ~EventDumpable(evs[i]) THEN i
    ELSE FirstBad(evs, i + 1)

\* ReasoningLogger._flush: the file is opened for writing, which empties it,
\* and json.dump writes the document piece by piece; when it raises, the
\* pieces written so far stay in the file and the failure is logged and
\* swallowed
Flush(fs, path, sid, evs) ==
    IF path = None THEN fs
    ELSE [f \in (DOMAIN fs) \cup {path} |->
            IF f # path THEN fs[f]
            ELSE IF FirstBad(evs, 1) = 0
            THEN [complete |-> TRUE, session_id |-> sid,
                  total_events |-> Len(evs), events |-> evs]
            ELSE [complete |-> FALSE, session_id |-> sid,
                  total_events |-> Len(evs),
                  events |-> SubSeq(evs, 1, FirstBad(evs, 1) - 1)]]

\* the start_event of start_session, called with no metadata
StartEvent ==
    [event |-> "session_start", timestamp |-> "isoformat",
     metadata |-> [type |-> "dict", values |-> << >>],
     config |-> [model |-> "current_model", provider |-> "default_provider"]]

LoggerInit ==
    /\ is_enabled = None
    /\ session_id = None
    /\ current_trace_file = None
    /\ events = << >>
    /\ files = << >>
    /\ logged = << >>
    /\ lastLog = [op |-> "none"]

\* ReasoningLogger.__init__ with _ensure_dir
NewLogger(enable_traces, mkdir_ok) ==
    /\ is_enabled = None
    /\ is_enabled' = [on |-> enable_traces /\ mkdir_ok]
    /\ session_id' = None
    /\ current_trace_file' = None
    /\ events' = << >>
    /\ lastLog' = [op |-> "init"]
    /\ UNCHANGED <<files, logged>>
    /\ UNCHANGED <<regVars, retryVars, origin, schemaVars, singletonVars,
                   asyncVars, schedVars,
                   catalogVars,
                   interVars>>

\* Variant: log_event without its guard
LogEvent_NoGuard(event_data) ==
    /\ events' = Append(events, event_data)
    /\ files' = Flush(files, current_trace_file, session_id,
                      Append(events, event_data))

\* ReasoningLogger.log_event applied to the logger's fields
LogEvent(event_data) ==
    IF ~is_enabled.on \/ current_trace_file = None
    THEN UNCHANGED <<events, files>>
    ELSE /\ events' = Append(events, event_data)
         /\ files' = Flush(files, current_trace_file, session_id,
                           Append(events, event_data))

\* ReasoningLogger.start_session
StartSession(ts) ==
    /\ is_enabled # None
    /\ session_id = None
    /\ IF ~is_enabled.on
       THEN UNCHANGED <<session_id, current_trace_file, events, files>>
       ELSE /\ session_id' = <<"trace_", ts>>
            /\ current_trace_file' = <<"traces_dir", "/", "trace_", ts, ".json">>
            /\ events' = <<StartEvent>>
            /\ files' = Flush(files,
                              <<"traces_dir", "/", "trace_", ts, ".json">>,
                              <<"trace_", ts>>,
                              <<StartEvent>>)
    /\ logged' = << >>
    /\ lastLog' = [op |-> "start_session", before |-> events]
    /\ UNCHANGED is_enabled
    /\ UNCHANGED <<regVars, retryVars, origin, schemaVars, singletonVars,
                   asyncVars, schedVars,
                   catalogVars,
                   interVars>>

\* ReasoningLogger.log_user_message
LogUserMessage(content) ==
    /\ is_enabled # None
    /\ Len(logged) < MaxEvents
    /\ LogEvent([event |-> "user_message", content |-> content,
                 timestamp |-> "isoformat"])
    /\ logged' = Append(logged, [event |-> "user_message",
                                 content |-> content,
                                 timestamp |-> "isoformat"])
    /\ lastLog' = [op |-> "log_user_message", before |-> events]
    /\ UNCHANGED <<is_enabled, session_id, current_trace_file>>
    /\ UNCHANGED <<regVars, retryVars, origin, schemaVars, singletonVars,
                   asyncVars, schedVars,
                   catalogVars,
                   interVars>>

\* ReasoningLogger.log_llm_response
LogLlmResponse(content, tool_calls, usage) ==
    /\ is_enabled # None
    /\ Len(logged) < MaxEvents
    /\ LogEvent([event |-> "llm_response", content |-> content,
                 tool_calls |-> tool_calls, usage |-> usage,
                 timestamp |-> "isoformat"])
    /\ logged' = Append(logged, [event |-> "llm_response",
                                 content |-> content,
                                 tool_calls |-> tool_calls, usage |-> usage,
                                 timestamp |-> "isoformat"])
    /\ lastLog' = [op |-> "log_llm_response", before |-> events]
    /\ UNCHANGED <<is_enabled, session_id, current_trace_file>>
    /\ UNCHANGED <<regVars, retryVars, origin, schemaVars, singletonVars,
                   asyncVars, schedVars,
                   catalogVars,
                   interVars>>

\* ReasoningLogger.log_tool_result
LogToolResult(tool_name, arguments, res) ==
    /\ is_enabled # None
    /\ Len(logged) < MaxEvents
    /\ LogEvent([event |-> "tool_result", tool_name |-> tool_name,
                 arguments |-> arguments, result |-> res,
                 timestamp |-> "isoformat"])
    /\ logged' = Append(logged, [event |-> "tool_result",
                                 tool_name |-> tool_name,
                                 arguments |-> arguments, result |-> res,
                                 timestamp |-> "isoformat"])
    /\ lastLog' = [op |-> "log_tool_result", before |-> events]
    /\ UNCHANGED <<is_enabled, session_id, current_trace_file>>
    /\ UNCHANGED <<regVars, retryVars, origin, schemaVars, singletonVars,
                   asyncVars, schedVars,
                   catalogVars,
                   interVars>>

NextLogger ==
    \/ \E e, m \in BOOLEAN : NewLogger(e, m)
    \/ \E ts \in Timestamps : StartSession(ts)
    \/ LogUserMessage("Hello")
    \/ \E u \in Payloads :
          LogLlmResponse("Hi there", [type |-> "list", values |-> <<"dict">>],
                         u)
    \/ \E a \in Payloads : LogToolResult("tool_x", a, "success")

(***************************************************************************)
(* Calls of callables wrapped by one policy, interleaved.  closure holds   *)
(* the values the decorator closed over; cs[i] holds the local variables   *)
(* of the wrapper frame of caller i, created anew by each call.            *)
(***************************************************************************)
Callers == {"a", "b"}

\* the policies the interleaved calls share
SharedPolicies ==
    {p \in Policies : /\ p.max_attempts >= 1
                      /\ p.base_delay = Scale
                      /\ p.max_delay = 2 * Scale
                      /\ p.exponential_base = 2
                      /\ p.exceptions = {"ValueError"}
                      /\ p.on_retry # "raises"}

NoFrame == [pc |-> "idle"]

\* the frame of sync_wrapper at its first statement
NewFrame ==
    [pc |-> "loop", attempt |-> 1, last_exception |-> None,
     calls |-> << >>, delays |-> << >>, pending |-> None,
     on_retry_calls |-> << >>, result |-> None]

\* func(*args, **kwargs) called by caller i for the k-th time in this call
FrameTargetCall(i, out, k) ==
    IF out = "ok" THEN Return(<<i, k>>)
    ELSE [kind |-> "raise",
          exc |-> [cls |-> out, msg |-> "error", id |-> <<i, k>>]]

InterInit ==
    /\ closure = None
    /\ wrapped_as = None
    /\ cs = [i \in Callers |-> NoFrame]

\* retry(...) is called and decorates the callables
Wrap ==
    /\ closure = None
    /\ closure' \in SharedPolicies
    /\ wrapped_as' = closure'
    /\ UNCHANGED cs
    /\ UNCHANGED <<regVars, retryVars, origin, schemaVars, singletonVars,
                   asyncVars, schedVars, loggerVars, catalogVars>>

\* caller i calls a wrapped callable
F_Call(i) ==
    /\ closure # None
    /\ cs[i].pc \in {"idle", "done"}
    /\ cs' = [cs EXCEPT ![i] = NewFrame]
    /\ UNCHANGED <<closure, wrapped_as>>
    /\ UNCHANGED <<regVars, retryVars, origin, schemaVars, singletonVars,
                   asyncVars, schedVars, loggerVars, catalogVars>>

\* try: return func(*args, **kwargs), in the frame of caller i
F_Invoke(i, out) ==
    /\ cs[i].pc = "loop"
    /\ cs[i].attempt <= closure.max_attempts
    /\ LET r == FrameTargetCall(i, out, Len(cs[i].calls) + 1)
       IN cs' = [cs EXCEPT
             ![i].calls = Append(@, r),
             ![i].result = IF r.kind = "return"
                              \/ ~Qualifies(r.exc, closure.exceptions)
                           THEN r ELSE @,
             ![i].last_exception =
                 IF r.kind = "raise" /\ Qualifies(r.exc, closure.exceptions)
                 THEN r.exc ELSE @,
             ![i].pc = IF r.kind = "raise"
                          /\ Qualifies(r.exc, closure.exceptions)
                       THEN "except" ELSE "done"]
    /\ UNCHANGED <<closure, wrapped_as>>
    /\ UNCHANGED <<regVars, retryVars, origin, schemaVars, singletonVars,
                   asyncVars, schedVars, loggerVars, catalogVars>>

\* the except block up to the delay, in the frame of caller i
F_Except(i, n) ==
    /\ cs[i].pc = "except"
    /\ cs' = IF IsLastAttempt(closure, cs[i].attempt)
             THEN [cs EXCEPT
                     ![i].result = [kind |-> "raise",
                                    exc |-> cs[i].last_exception],
                     ![i].pc = "done"]
             ELSE [cs EXCEPT
                     ![i].pending =
                         [delay |-> JitterDelay(closure,
                                       BackoffDelay(closure, cs[i].attempt),
                                       n),
                          factor |-> IF closure.jitter THEN n ELSE Scale,
                          attempt |-> cs[i].attempt],
                     ![i].pc = IF closure.on_retry # "none"
                               THEN "on_retry" ELSE "sleep"]
    /\ UNCHANGED <<closure, wrapped_as>>
    /\ UNCHANGED <<regVars, retryVars, origin, schemaVars, singletonVars,
                   asyncVars, schedVars, loggerVars, catalogVars>>

\* if on_retry: on_retry(e, attempt), in the frame of caller i
F_OnRetry(i) ==
    /\ cs[i].pc = "on_retry"
    /\ cs' = [cs EXCEPT
             ![i].on_retry_calls =
                 Append(@, <<cs[i].last_exception, cs[i].attempt>>),
             ![i].pc = "sleep"]
    /\ UNCHANGED <<closure, wrapped_as>>
    /\ UNCHANGED <<regVars, retryVars, origin, schemaVars, singletonVars,
                   asyncVars, schedVars, loggerVars, catalogVars>>

\* Variant: attempt is a variable of the decorator, shared by all frames
F_Sleep_SharedAttempt(i) ==
    /\ cs[i].pc = "sleep"
    /\ cs' = [j \in Callers |->
                IF j = i
                THEN [cs[j] EXCEPT !.delays = Append(@, cs[i].pending),
                                   !.attempt = @ + 1, !.pc = "loop"]
                ELSE IF cs[j].pc \in {"idle", "done"} THEN cs[j]
                ELSE [cs[j] EXCEPT !.attempt = @ + 1]]
    /\ UNCHANGED <<closure, wrapped_as>>
    /\ UNCHANGED <<regVars, retryVars, origin, schemaVars, singletonVars,
                   asyncVars, schedVars, loggerVars, catalogVars>>

\* time.sleep(delay) ends and the loop goes on, in the frame of caller i
F_Sleep(i) ==
    /\ cs[i].pc = "sleep"
    /\ cs' = [cs EXCEPT ![i].delays = Append(@, cs[i].pending),
                        ![i].attempt = @ + 1,
                        ![i].pc = "loop"]
    /\ UNCHANGED <<closure, wrapped_as>>
    /\ UNCHANGED <<regVars, retryVars, origin, schemaVars, singletonVars,
                   asyncVars, schedVars, loggerVars, catalogVars>>

NextInterleaved ==
    \/ Wrap
    \/ \E i \in Callers : F_Call(i)
    \/ \E i \in Callers, out \in {"ok", "ValueError", "ConnectionError"} :
          F_Invoke(i, out)
    \/ \E i \in Callers, n \in JitterNumerators : F_Except(i, n)
    \/ \E i \in Callers : F_OnRetry(i)
    \/ \E i \in Callers : F_Sleep(i)

NextPresets ==
    \/ CallPreset
    \/ \E out \in PresetOutcomes : Invoke(out)
    \/ \E n \in JitterNumerators : Except(n)
    \/ Sleep

NextRetry ==
    \/ Call
    \/ CallConfig
    \/ \E out \in TargetOutcomes : Invoke(out)
    \/ \E n \in JitterNumerators : Except(n)
    \/ OnRetry
    \/ Sleep
    \/ LoopExit

(***************************************************************************)
(* The registry read through list_tools and get_tools_for_llm.  listing is *)
(* the list object a caller got from list_tools and still holds, seen what *)
(* the caller has read in it and done to it since.                         *)
(***************************************************************************)
CatalogImpls == {"list_files", "list_files_v2", "delete_file"}
CatalogKeySets == ExecuteKeySets \cup {{"filepath"}}

\* declared parameter lists; "pattern" is a parameter of no implementation
DeclaredParams ==
    {<< >>,
     <<[name |-> "pattern", type |-> "string", description |-> "how",
        required |-> TRUE, default |-> None]>>}

\* a descriptor the caller builds to put into a list it holds
OwnTool == Tool("own", "description", "list_files", << >>)

CatalogInit ==
    /\ listing = None
    /\ seen = << >>

\* registry.list_tools()
ListToolsCall ==
    /\ listing' = ListResult(tools, order)
    /\ seen' = ListTools(tools, order)
    /\ lastCall' = [op |-> "list_tools", before |-> tools,
                    outcome |-> Return(ListTools(tools, order))]
    /\ UNCHANGED <<tools, order, history>>
    /\ UNCHANGED <<retryVars, origin, schemaVars, singletonVars, asyncVars,
                   schedVars, loggerVars, interVars>>

\* registry.get_tools_for_llm()
GetToolsForLlmCall ==
    /\ lastCall' = [op |-> "get_tools_for_llm", before |-> tools,
                    outcome |-> Return(GetToolsForLlm(tools, order))]
    /\ UNCHANGED <<tools, order, history>>
    /\ UNCHANGED <<retryVars, origin, otherVars>>

\* the caller appends to the list it got: a list takes the element, a
\* dictionary view has no append and the call raises AttributeError
ListAppend ==
    /\ listing # None
    /\ \A i \in DOMAIN seen : seen[i] # OwnTool
    /\ IF listing.view
       THEN /\ UNCHANGED <<listing, seen>>
            /\ lastCall' = [op |-> "list_append", before |-> tools,
                            outcome |-> Raise("AttributeError", "append")]
       ELSE /\ listing' = [listing EXCEPT !.items = Append(@, OwnTool)]
            /\ seen' = Append(seen, OwnTool)
            /\ lastCall' = [op |-> "list_append", before |-> tools,
                            outcome |-> Return(None)]
    /\ UNCHANGED <<tools, order, history>>
    /\ UNCHANGED <<retryVars, origin, schemaVars, singletonVars, asyncVars,
                   schedVars, loggerVars, interVars>>

\* the caller removes the first element of the list it got
ListRemove ==
    /\ listing # None
    /\ seen # << >>
    /\ IF listing.view
       THEN /\ UNCHANGED <<listing, seen>>
            /\ lastCall' = [op |-> "list_remove", before |-> tools,
                            outcome |-> Raise("AttributeError", "pop")]
       ELSE /\ listing' = [listing EXCEPT !.items = Tail(@)]
            /\ seen' = Tail(seen)
            /\ lastCall' = [op |-> "list_remove", before |-> tools,
                            outcome |-> Return(None)]
    /\ UNCHANGED <<tools, order, history>>
    /\ UNCHANGED <<retryVars, origin, schemaVars, singletonVars, asyncVars,
                   schedVars, loggerVars, interVars>>

NextCatalog ==
    \/ \E n \in Names, ps \in DeclaredParams, f \in CatalogImpls :
          Register(n, "description", ps, f)
    \/ Clear
    \/ \E n \in RequestNames : Get(n)
    \/ \E n \in RequestNames, k \in CatalogKeySets : Execute(n, k)
    \/ ListToolsCall
    \/ GetToolsForLlmCall
    \/ ListAppend
    \/ ListRemove

NextRegistry ==
    \/ \E n \in Names, f \in Impls : Register(n, "description", << >>, f)
    \/ Clear
    \/ \E n \in RequestNames : Get(n)
    \/ \E n \in RequestNames, k \in ExecuteKeySets : Execute(n, k)
    \/ \E tc \in ToolCalls : ExecuteToolCall(tc)

(***************************************************************************)
(* Tool.to_json_schema on the descriptors of a bounded set                 *)
(***************************************************************************)
ParamNames == {"path", "recursive", "pattern"}

ToolParameters ==
    [name : ParamNames, type : {"string", "boolean"},
     description : {"where", "how"}, required : BOOLEAN,
     default : {None, PyStr(".")}]

\* parameter lists of at most MaxParams parameters with distinct names
RECURSIVE ParamLists(_)
ParamLists(n) ==
    IF n = 0 THEN {<< >>}
    ELSE ParamLists(n - 1) \cup
         {Append(ps, q) : ps \in {l \in ParamLists(n - 1) : Len(l) = n - 1},
                          q \in ToolParameters}

DistinctNames(ps) ==
    \A i, j \in DOMAIN ps : ps[i].name = ps[j].name => i = j

SchemaInit ==
    /\ descriptor = None
    /\ schema_out = None

\* Tool(name=, description=, function=, parameters=)
NewTool ==
    /\ descriptor = None
    /\ descriptor' \in
          {Tool("ls", "List files", "list_files", ps) :
              ps \in {l \in ParamLists(MaxParams) : DistinctNames(l)}}
    /\ schema_out' = None
    /\ UNCHANGED <<regVars, retryVars, origin, singletonVars, asyncVars, schedVars,
                   loggerVars,
                   catalogVars,
                   interVars>>

\* tool.to_json_schema()
ExportSchema ==
    /\ descriptor # None
    /\ schema_out' = ToJsonSchema(descriptor)
    /\ UNCHANGED descriptor
    /\ UNCHANGED <<regVars, retryVars, origin, singletonVars, asyncVars, schedVars,
                   loggerVars,
                   catalogVars,
                   interVars>>

NextSchema ==
    \/ NewTool
    \/ ExportSchema

(***************************************************************************)
(* ToolRegistry construction: the class attribute _instance, the objects   *)
(* allocated so far and the references handed out                          *)
(***************************************************************************)
Ref(id) == [id |-> id]

\* ToolRegistry.__new__(cls)
ToolRegistryNew(inst, hp) ==
    IF inst = None
    THEN [instance |-> Ref(Len(hp) + 1),
          heap |-> Append(hp, [has_tools |-> TRUE, _tools |-> << >>,
                               order |-> << >>]),
          ref |-> Ref(Len(hp) + 1)]
    ELSE [instance |-> inst, heap |-> hp, ref |-> inst]

\* Variant: __init__ assigns self._tools = {} unconditionally
ToolRegistryInit_Reset(hp, r) ==
    [hp EXCEPT ![r.id] = [has_tools |-> TRUE, _tools |-> << >>,
                          order |-> << >>]]

\* ToolRegistry.__init__(self)
ToolRegistryInit(hp, r) ==
    IF ~hp[r.id].has_tools
    THEN [hp EXCEPT ![r.id] = [has_tools |-> TRUE, _tools |-> << >>,
                               order |-> << >>]]
    ELSE hp

\* ToolRegistry(): __new__ then __init__ on the object it returned
Construct(inst, hp) ==
    LET made == ToolRegistryNew(inst, hp)
    IN [instance |-> made.instance,
        heap |-> ToolRegistryInit(made.heap, made.ref),
        ref |-> made.ref]

\* the references a caller can hold: the module-level registry and the
\* results of later ToolRegistry() calls
HeldRefs == {registry} \cup {refs[i] : i \in DOMAIN refs}

SingletonInit ==
    /\ instance = None
    /\ heap = << >>
    /\ registry = None
    /\ refs = << >>
    /\ lastUse = [op |-> "none"]

\* registry = ToolRegistry(), executed when the module is imported
ImportModule ==
    /\ registry = None
    /\ LET made == Construct(instance, heap)
       IN /\ instance' = made.instance
          /\ heap' = made.heap
          /\ registry' = made.ref
    /\ lastUse' = [op |-> "import"]
    /\ UNCHANGED refs
    /\ UNCHANGED <<regVars, retryVars, origin, schemaVars, asyncVars, schedVars,
                   loggerVars,
                   catalogVars,
                   interVars>>

\* r = ToolRegistry() in code that has imported the module
ConstructAgain ==
    /\ registry # None
    /\ Len(refs) < MaxRefs
    /\ LET made == Construct(instance, heap)
       IN /\ instance' = made.instance
          /\ heap' = made.heap
          /\ refs' = Append(refs, made.ref)
    /\ lastUse' = [op |-> "construct", before |-> heap]
    /\ UNCHANGED registry
    /\ UNCHANGED <<regVars, retryVars, origin, schemaVars, asyncVars, schedVars,
                   loggerVars,
                   catalogVars,
                   interVars>>

\* r.register(name, description, parameters)(func) through a held reference
RegisterVia(r, name, func) ==
    /\ registry # None
    /\ r \in HeldRefs
    /\ heap' = [heap EXCEPT
          ![r.id]._tools = RegisterTools(@, name,
                               Tool(name, "description", func, << >>)),
          ![r.id].order = IF name \in DOMAIN heap[r.id]._tools
                          THEN @ ELSE Append(@, name)]
    /\ lastUse' = [op |-> "register", via |-> r, name |-> name,
                   func |-> func]
    /\ UNCHANGED <<instance, registry, refs>>
    /\ UNCHANGED <<regVars, retryVars, origin, schemaVars, asyncVars, schedVars,
                   loggerVars,
                   catalogVars,
                   interVars>>

\* tool(name, description, parameters)(func)
ToolShorthand(name, func) ==
    /\ registry # None
    /\ heap' = [heap EXCEPT
          ![registry.id]._tools = RegisterTools(@, name,
                               Tool(name, "description", func, << >>)),
          ![registry.id].order = IF name \in DOMAIN heap[registry.id]._tools
                                 THEN @ ELSE Append(@, name)]
    /\ lastUse' = [op |-> "tool", via |-> registry, name |-> name,
                   func |-> func]
    /\ UNCHANGED <<instance, registry, refs>>
    /\ UNCHANGED <<regVars, retryVars, origin, schemaVars, asyncVars, schedVars,
                   loggerVars,
                   catalogVars,
                   interVars>>

NextSingleton ==
    \/ ImportModule
    \/ ConstructAgain
    \/ \E r \in {Ref(i) : i \in 1..(MaxRefs + 1)}, n \in Names,
          f \in {"list_files", "list_files_v2"} : RegisterVia(r, n, f)
    \/ \E n \in Names, f \in {"list_files", "list_files_v2"} :
          ToolShorthand(n, f)

Init ==
    /\ RegInit
    /\ RetryIdle
    /\ SchemaInit
    /\ SingletonInit
    /\ AsyncIdle
    /\ SchedInit
    /\ LoggerInit
    /\ CatalogInit
    /\ InterInit

SpecRegistry == Init /\ [][NextRegistry]_vars

SpecRetry == Init /\ [][NextRetry]_vars

\* the thread that runs a call keeps running: every invocation of the
\* target and of on_retry ends and every sleep is finite
LiveRetry == Init /\ [][NextRetry]_vars /\ WF_vars(NextRetry)

SpecCatalog == Init /\ [][NextCatalog]_vars

SpecInterleaved == Init /\ [][NextInterleaved]_vars

SpecLogger == Init /\ [][NextLogger]_vars

SpecPresets == Init /\ [][NextPresets]_vars

SpecConventions == Init /\ [][NextConventions]_vars

SpecScheduling == Init /\ [][NextScheduling]_vars

SpecSchema == Init /\ [][NextSchema]_vars

SpecSingleton == Init /\ [][NextSingleton]_vars

(***************************************************************************)
(* Properties of the registry and of the dispatch entry point              *)
(***************************************************************************)
IsText(v) == DOMAIN v = 1..Len(v) /\ \A i \in DOMAIN v : v[i] \in STRING

\* what the implementation registered under the name does with these keys
ImplRaises(tls, name, keys) ==
    /\ name \in DOMAIN tls
    /\ CallFunction(tls[name].function, keys).kind = "raise"

ImplFailure(tls, name, keys) == CallFunction(tls[name].function, keys).exc

OrdinaryFailures == {"ValueError", "TypeError", "OSError", "ConnectionError",
                     "TimeoutError", "Exception"}

\* the arguments of the most recent register(name, ...) since the last
\* clear(), as a sequence of length 0 or 1
RECURSIVE LastRegistered(_, _)
LastRegistered(h, name) ==
    IF h = << >> THEN << >>
    ELSE LET op == h[Len(h)]
         IN IF op[1] = "clear" THEN << >>
            ELSE IF op[2] = name THEN <<op>>
            ELSE LastRegistered(SubSeq(h, 1, Len(h) - 1), name)

\* C1: execute_tool_call never raises and always returns a string, for
\* every request: any name, arguments as a mapping with any keys, as
\* malformed JSON or as valid JSON of any type.
C1_NeverRaises ==
    lastCall.op = "execute_tool_call" =>
        /\ lastCall.outcome.kind = "return"
        /\ IsText(lastCall.outcome.value)

\* C2 as stated: whenever the implementation of a registered tool raises a
\* failure of any kind, execute returns "Error executing '<name>': <message>"
\* and the registry is unchanged.
C2_AnyKind ==
    (lastCall.op = "execute"
     /\ ImplRaises(lastCall.before, lastCall.name, lastCall.keys)) =>
        /\ lastCall.outcome =
              Return(<<"Error executing '", lastCall.name, "': ",
                       ImplFailure(lastCall.before, lastCall.name,
                                   lastCall.keys).msg>>)
        /\ tools = lastCall.before

C2_FailedCall(c, kinds) ==
    /\ c.op = "execute"
    /\ ImplRaises(c.before, c.name, c.keys)
    /\ ImplFailure(c.before, c.name, c.keys).cls \in kinds

\* C2 amended: when the implementation of a registered tool raises a failure
\* of the Exception family, execute returns the string "Error executing
\* '<name>': <message>", the registry mapping is unchanged, and a later get
\* or execute gives what it gives on the registry as it was before the
\* failed call.
C2_ExceptionContained ==
    [][/\ C2_FailedCall(lastCall', OrdinaryFailures) =>
            /\ lastCall'.outcome =
                  Return(<<"Error executing '", lastCall'.name, "': ",
                           ImplFailure(lastCall'.before, lastCall'.name,
                                       lastCall'.keys).msg>>)
            /\ tools' = tools
       /\ (C2_FailedCall(lastCall, OrdinaryFailures)
           /\ lastCall'.op \in {"get", "execute"}) =>
            /\ lastCall'.before = lastCall.before
            /\ lastCall'.op = "get" =>
                 lastCall'.outcome =
                    Return(GetTool(lastCall.before, lastCall'.name))
            /\ lastCall'.op = "execute" =>
                 lastCall'.invoked =
                    (IF lastCall'.name \in DOMAIN lastCall.before
                     THEN <<lastCall.before[lastCall'.name].function>>
                     ELSE << >>)]_vars

C2_Witness ==
    /\ lastCall.op = "execute"
    /\ lastCall.name \in DOMAIN lastCall.before
    /\ lastCall.before[lastCall.name].function = "failing_tool"
    /\ lastCall.keys = {}
    /\ lastCall.outcome = Return(<<"Error executing '", lastCall.name, "': ",
                                   "boom">>)

\* C3: for a name that is not a key of the registry, execute returns a
\* string containing "not found" and the name, invokes no implementation,
\* leaves the registry unchanged and does not raise.
C3_NotFound ==
    (lastCall.op = "execute" /\ lastCall.name \notin DOMAIN lastCall.before) =>
        /\ lastCall.outcome.kind = "return"
        /\ IsText(lastCall.outcome.value)
        /\ Len(lastCall.outcome.value) = 3
        /\ lastCall.outcome.value[2] = lastCall.name
        /\ lastCall.outcome.value[3] = "' not found."
        /\ lastCall.invoked = << >>
        /\ tools = lastCall.before

C3_Witness ==
    /\ lastCall.op = "execute"
    /\ lastCall.name = "nonexistent"
    /\ DOMAIN tools = Names
    /\ lastCall.outcome.kind = "return"

\* C4: when the arguments are a string that fails to parse as JSON,
\* execute_tool_call returns "Error: Invalid JSON arguments for tool
\* '<name>'" with no registry lookup, no implementation invoked and no
\* registry change, whether or not the name is registered.
MalformedTexts == {"{not valid json", ""}

C4_InvalidJson ==
    (/\ lastCall.op = "execute_tool_call"
     /\ lastCall.request.has_arguments
     /\ lastCall.request.arguments.type = "str"
     /\ lastCall.request.arguments.text \in MalformedTexts) =>
        /\ lastCall.outcome =
              Return(<<"Error: Invalid JSON arguments for tool '",
                       IF lastCall.request.has_name
                       THEN lastCall.request.name ELSE "", "'">>)
        /\ lastCall.lookups = 0
        /\ lastCall.invoked = << >>
        /\ tools = lastCall.before

C4_Witness ==
    /\ lastCall.op = "execute_tool_call"
    /\ lastCall.request.has_name
    /\ lastCall.request.name \in DOMAIN tools
    /\ lastCall.request.has_arguments
    /\ lastCall.request.arguments = PyStr("{not valid json")
    /\ lastCall.outcome.kind = "return"

\* C5: after any sequence of register and clear, get(name) returns the
\* descriptor most recently registered under the name since the last clear
\* (absent if none), execute(name) invokes that descriptor's implementation
\* and no earlier one, and registering an existing name raises no error.
C5_LastRegistrationWins ==
    /\ lastCall.op = "get" =>
         LET last == LastRegistered(history, lastCall.name)
         IN lastCall.outcome =
               IF last = << >> THEN Return(None)
               ELSE Return([name |-> last[1][2], description |-> last[1][3],
                            parameters |-> last[1][4],
                            function |-> last[1][5]])
    /\ lastCall.op = "execute" =>
         LET last == LastRegistered(history, lastCall.name)
         IN lastCall.invoked =
               IF last = << >> THEN << >> ELSE <<last[1][5]>>
    /\ lastCall.op = "register" =>
         /\ lastCall.outcome.kind = "return"
         /\ lastCall.name \in DOMAIN tools
         /\ tools[lastCall.name].function = history[Len(history)][5]

C5_Witness ==
    /\ Len(history) >= 2
    /\ history[1][1] = "register"
    /\ history[2][1] = "register"
    /\ history[1][2] = history[2][2]
    /\ history[1][5] = "list_files"
    /\ history[2][5] = "list_files_v2"
    /\ Len(history) = 2
    /\ lastCall.op = "execute"
    /\ lastCall.name = history[2][2]
    /\ lastCall.invoked = <<"list_files_v2">>

(***************************************************************************)
(* Properties of the retry wrapper                                         *)
(***************************************************************************)
\* isinstance(e, kinds), written out for the properties
KindIn(cls, kinds) == \E c \in kinds : IsSubclass(cls, c)

QualifyingFailure(c) ==
    c.kind = "raise" /\ KindIn(c.exc.cls, policy.exceptions)

\* base_delay * growth_factor^(k-1)
RECURSIVE Growth(_, _, _)
Growth(b, g, k) == IF k = 1 THEN b ELSE g * Growth(b, g, k - 1)

OnRetryCount(k) == IF policy.on_retry = "none" THEN 0 ELSE k

C7_State ==
    \A k \in DOMAIN calls :
        calls[k].kind = "return" =>
            /\ Len(calls) = k
            /\ pc = "done"
            /\ result = calls[k]
            /\ result.value = k
            /\ Len(delays) = k - 1
            /\ Len(on_retry_calls) = OnRetryCount(k - 1)
            /\ k = 1 => (delays = << >> /\ on_retry_calls = << >>)

\* C7: if the target first succeeds on attempt k after k-1 qualifying
\* failures, the call makes exactly k invocations and returns the result of
\* attempt k at once, and nothing (invocation, delay, on_retry call) happens
\* after the success; for k = 1 there is no delay and no on_retry call.
C7_SuccessStops ==
    [][/\ C7_State'
       /\ (pc = "done" /\ result.kind = "return") =>
             UNCHANGED <<calls, delays, on_retry_calls, result, pc>>]_vars

C7_Witness ==
    /\ pc = "done"
    /\ Len(calls) = 3
    /\ QualifyingFailure(calls[1])
    /\ QualifyingFailure(calls[2])
    /\ calls[3].kind = "return"
    /\ result = Return(3)
    /\ Len(delays) = 2
    /\ Len(on_retry_calls) = 2

\* C8: a failure whose kind is not in the retryable set is propagated at
\* once at whichever attempt it occurs: no further invocation, no delay and
\* no on_retry call for it; a first attempt raising it gives exactly one
\* invocation.
C8_NonQualifying ==
    \A k \in DOMAIN calls :
        (calls[k].kind = "raise" /\ ~QualifyingFailure(calls[k])) =>
            /\ Len(calls) = k
            /\ pc = "done"
            /\ result = calls[k]
            /\ Len(delays) = k - 1
            /\ pending = None \/ pending.attempt < k
            /\ Len(on_retry_calls) = OnRetryCount(k - 1)
            /\ \A i \in DOMAIN on_retry_calls : on_retry_calls[i][2] < k

C8_Witness ==
    /\ pc = "done"
    /\ policy.exceptions = {"ValueError"}
    /\ policy.on_retry = "returns"
    /\ Len(calls) = 2
    /\ calls[1].kind = "raise" /\ calls[1].exc.cls = "ValueError"
    /\ calls[2].kind = "raise" /\ calls[2].exc.cls = "ConnectionError"
    /\ result = calls[2]
    /\ Len(delays) = 1

\* C9: with jitter disabled, the delay taken after the failure of attempt k
\* (k < max_attempts) is min(base_delay * growth_factor^(k-1), max_delay):
\* base_delay (capped) before the second attempt, base_delay * growth_factor
\* (capped) before the third, and the delays of one call are non-decreasing
\* when growth_factor >= 1.
C9_BackoffDelay ==
    (pc # "idle" /\ ~policy.jitter) =>
        /\ \A k \in DOMAIN delays :
              /\ delays[k].attempt = k
              /\ k < policy.max_attempts
              /\ delays[k].delay =
                    Min(Growth(policy.base_delay, policy.exponential_base, k),
                        policy.max_delay)
        /\ Len(delays) >= 1 =>
              delays[1].delay = Min(policy.base_delay, policy.max_delay)
        /\ Len(delays) >= 2 =>
              delays[2].delay =
                 Min(policy.base_delay * policy.exponential_base,
                     policy.max_delay)
        /\ policy.exponential_base >= 1 =>
              \A i, j \in DOMAIN delays :
                  i <= j => delays[i].delay <= delays[j].delay

C9_Witness ==
    /\ pc # "idle"
    /\ ~policy.jitter
    /\ policy.base_delay = Scale
    /\ policy.exponential_base = 2
    /\ policy.max_delay = 3 * Scale
    /\ Len(delays) = 2
    /\ delays[1].delay = Scale
    /\ delays[2].delay = 2 * Scale

\* C10 as stated: every delay is bounded; without jitter it never exceeds
\* max_delay; with jitter it is the capped value times a factor of
\* [0.5, 1.5), never negative and always below max_delay * 1.5.
C10_StrictlyBelow ==
    pc # "idle" =>
        \A k \in DOMAIN delays :
            /\ ~policy.jitter => delays[k].delay <= policy.max_delay
            /\ policy.jitter =>
                  /\ delays[k].delay * Scale =
                        Min(Growth(policy.base_delay,
                                   policy.exponential_base, k),
                            policy.max_delay) * delays[k].factor
                  /\ 2 * delays[k].factor >= Scale
                  /\ 2 * delays[k].factor < 3 * Scale
                  /\ delays[k].delay >= 0
                  /\ 2 * delays[k].delay < 3 * policy.max_delay

\* C10 amended: every delay is bounded; without jitter it never exceeds
\* max_delay; with jitter it is the capped value (the cap comes first) times
\* a factor of [0.5, 1.5), so it is never negative, never exceeds
\* max_delay * 1.5, and is below max_delay * 1.5 whenever max_delay > 0.
C10_Bounded ==
    pc # "idle" =>
        \A k \in DOMAIN delays :
            /\ ~policy.jitter => delays[k].delay <= policy.max_delay
            /\ policy.jitter =>
                  /\ delays[k].delay * Scale =
                        Min(Growth(policy.base_delay,
                                   policy.exponential_base, k),
                            policy.max_delay) * delays[k].factor
                  /\ 2 * delays[k].factor >= Scale
                  /\ 2 * delays[k].factor < 3 * Scale
                  /\ delays[k].delay >= 0
                  /\ 2 * delays[k].delay <= 3 * policy.max_delay
                  /\ policy.max_delay > 0 =>
                        2 * delays[k].delay < 3 * policy.max_delay

C10_Witness ==
    /\ pc # "idle"
    /\ policy.jitter
    /\ Len(delays) >= 2
    /\ delays[1].delay > policy.max_delay
    /\ delays[2].delay < policy.max_delay

\* C11: when on_retry is configured it is called exactly once for every
\* failed attempt that is followed by another attempt, with (the failure of
\* that attempt, k), in the order k = 1, 2, ...; the call comes after the
\* failure of attempt k and before the delay that precedes attempt k+1; it
\* is not called for the final failed attempt, for a non-qualifying failure
\* or after a success.
C11_OnRetryCalls ==
    pc # "idle" =>
        /\ policy.on_retry = "none" => on_retry_calls = << >>
        /\ \A k \in DOMAIN on_retry_calls :
              /\ k \in DOMAIN calls
              /\ on_retry_calls[k] = <<calls[k].exc, k>>
              /\ QualifyingFailure(calls[k])
              /\ k < policy.max_attempts
        /\ policy.on_retry # "none" =>
              /\ \A k \in DOMAIN calls :
                    k < Len(calls) => k \in DOMAIN on_retry_calls
              /\ Len(delays) <= Len(on_retry_calls)
              /\ Len(on_retry_calls) <= Len(delays) + 1
        /\ \A k \in DOMAIN calls :
              (calls[k].kind = "return" \/ ~QualifyingFailure(calls[k])
               \/ k = policy.max_attempts) => k \notin DOMAIN on_retry_calls

C11_Witness ==
    /\ pc = "sleep"
    /\ policy.on_retry = "returns"
    /\ Len(calls) = 2
    /\ Len(delays) = 1
    /\ on_retry_calls = <<<<calls[1].exc, 1>>, <<calls[2].exc, 2>>>>

\* C20: when the arguments are a string that cannot be deserialized as a
\* mapping, valid JSON that is not an object included (a list, a number, a
\* string, null), execute_tool_call returns "Error: Invalid JSON arguments
\* for tool '<name>'" without touching the registry.
NotAMappingTexts == {"{not valid json", "", "[1, 2]", "42", "null", "\"abc\""}

C20_NotAMapping ==
    (/\ lastCall.op = "execute_tool_call"
     /\ lastCall.request.has_arguments
     /\ lastCall.request.arguments.type = "str"
     /\ lastCall.request.arguments.text \in NotAMappingTexts) =>
        /\ lastCall.outcome =
              Return(<<"Error: Invalid JSON arguments for tool '",
                       IF lastCall.request.has_name
                       THEN lastCall.request.name ELSE "", "'">>)
        /\ lastCall.lookups = 0
        /\ lastCall.invoked = << >>
        /\ tools = lastCall.before

C14_Clear ==
    /\ lastCall.op = "clear" =>
          /\ \A n \in RequestNames :
                /\ n \notin DOMAIN tools
                /\ GetTool(tools, n) = None
                /\ RegistryExecute(tools, n, {}).outcome =
                      Return(<<"Error: Tool '", n, "' not found.">>)
          /\ ListTools(tools, order) = << >>
          /\ GetToolsForLlm(tools, order) = << >>
    /\ (/\ lastCall.op = "register"
        /\ Len(history) >= 2
        /\ history[Len(history) - 1] = <<"clear">>) =>
          /\ DOMAIN tools = {lastCall.name}
          /\ GetTool(tools, lastCall.name).function =
                history[Len(history)][5]
          /\ Len(ListTools(tools, order)) = 1

C14_Witness ==
    /\ lastCall.op = "clear"
    /\ lastCall.before # << >>
    /\ tools = << >>

\* C13: every construction returns the one instance, constructing again
\* leaves the tools mapping as it was, and a tool registered through any
\* reference is seen by get, execute and list_tools through every reference.
C13_Singleton ==
    /\ \A r \in HeldRefs : r # None => r = instance /\ r.id \in DOMAIN heap
    /\ Len(heap) <= 1
    /\ lastUse.op = "construct" => heap = lastUse.before
    /\ lastUse.op \in {"register", "tool"} =>
          \A r \in HeldRefs :
             /\ GetTool(heap[r.id]._tools, lastUse.name) # None
             /\ GetTool(heap[r.id]._tools, lastUse.name).function =
                   lastUse.func
             /\ RegistryExecute(heap[r.id]._tools, lastUse.name, {}).invoked
                   = <<lastUse.func>>
             /\ \E i \in DOMAIN ListTools(heap[r.id]._tools,
                                          heap[r.id].order) :
                   ListTools(heap[r.id]._tools, heap[r.id].order)[i] =
                      Tool(lastUse.name, "description", lastUse.func, << >>)

C13_Witness ==
    /\ lastUse.op = "construct"
    /\ Len(refs) = 2
    /\ DOMAIN heap[refs[2].id]._tools = {"ls", "x"}
    /\ heap[registry.id].order = <<"x", "ls">>

(***************************************************************************)
(* Properties of the presets and of RetryConfig                            *)
(***************************************************************************)
NetworkKinds == {"ConnectionError", "TimeoutError", "OSError"}

\* the delay before attempt k + 1 under base b and cap c (both in 1/Scale s)
\* with growth factor 2 and the sampled jitter factor n/Scale
PresetDelay(b, c, k, n) == (Min(b * Pow(2, k - 1), c) * n) \div Scale

\* C16 as stated: under retry_api every failure kind is retried, so a call
\* that ends with a propagated failure has made all 3 attempts.
C16_EveryKind ==
    (origin = [via |-> "retry_api"] /\ pc = "done" /\ result.kind = "raise")
        => Len(calls) = 3

\* C16: retry_api makes at most 3 attempts with base delay 1 s and cap 30 s
\* and retries on every failure kind of the Exception family; retry_network
\* makes at most 5 attempts with base delay 0.5 s and cap 60 s and retries
\* only on connection, timeout and OS-level kinds, any other kind being
\* propagated after the invocation that raised it (a single invocation when
\* it is the first); a target that succeeds at once is invoked once.
C16_Presets ==
    /\ origin = [via |-> "retry_api"] =>
          /\ Len(calls) <= 3
          /\ \A k \in DOMAIN delays :
                delays[k].delay =
                   PresetDelay(Scale, 30 * Scale, k, delays[k].factor)
          /\ \A k \in DOMAIN calls :
                k < Len(calls) =>
                   /\ calls[k].kind = "raise"
                   /\ IsSubclass(calls[k].exc.cls, "Exception")
          /\ (pc = "done" /\ result.kind = "raise"
              /\ IsSubclass(result.exc.cls, "Exception")) =>
                Len(calls) = 3 /\ Len(delays) = 2
    /\ origin = [via |-> "retry_network"] =>
          /\ Len(calls) <= 5
          /\ \A k \in DOMAIN delays :
                delays[k].delay =
                   PresetDelay(Scale \div 2, 60 * Scale, k, delays[k].factor)
          /\ \A k \in DOMAIN calls :
                k < Len(calls) =>
                   /\ calls[k].kind = "raise"
                   /\ KindIn(calls[k].exc.cls, NetworkKinds)
          /\ (pc = "done" /\ result.kind = "raise"
              /\ KindIn(result.exc.cls, NetworkKinds)) =>
                Len(calls) = 5 /\ Len(delays) = 4
          /\ (Len(calls) >= 1 /\ calls[1].kind = "raise"
              /\ ~KindIn(calls[1].exc.cls, NetworkKinds)) =>
                /\ Len(calls) = 1
                /\ pc = "done"
                /\ result = calls[1]
                /\ delays = << >>
    /\ (origin # None /\ origin.via \in {"retry_api", "retry_network"}) =>
          /\ pc = "done" => result = calls[Len(calls)]
          /\ (Len(calls) >= 1 /\ calls[1].kind = "return") =>
                /\ Len(calls) = 1
                /\ pc = "done"
                /\ result = calls[1]
                /\ delays = << >>

C16_Witness ==
    /\ origin = [via |-> "retry_network"]
    /\ pc = "done"
    /\ Len(calls) = 5
    /\ calls[1].exc.cls = "ConnectionError"
    /\ calls[2].exc.cls = "TimeoutError"
    /\ calls[3].exc.cls = "OSError"
    /\ result.kind = "raise"
    /\ result.exc.cls = "ConnectionError"
    /\ delays[1].delay = 2
    /\ delays[4].delay = 4 * Scale

\* C17: a decorator obtained from RetryConfig(max_attempts, base_delay,
\* max_delay, exponential_base, jitter).decorator(exceptions) is the wrapper
\* retry gives for those five values, the given exceptions and no on_retry:
\* it makes the same invocations, takes the same delays and ends with the
\* same outcome; with max_attempts = 2 and one qualifying failure it makes
\* exactly two invocations and returns the success result.
C17_ConfigEquivalent ==
    (origin # None /\ origin.via = "config") =>
        LET c == origin.config
            p == Retry(c.max_attempts, c.base_delay, c.max_delay,
                       c.exponential_base, c.jitter, origin.exceptions,
                       "none")
        IN /\ policy = p
           /\ on_retry_calls = << >>
           /\ Len(calls) <= c.max_attempts
           /\ \A k \in DOMAIN delays :
                 /\ ~c.jitter => delays[k].factor = Scale
                 /\ delays[k].delay * Scale =
                       Min(c.base_delay * Pow(c.exponential_base, k - 1),
                           c.max_delay) * delays[k].factor
           /\ \A k \in DOMAIN calls :
                 k < Len(calls) =>
                    /\ calls[k].kind = "raise"
                    /\ KindIn(calls[k].exc.cls, origin.exceptions)
           /\ pc = "done" =>
                 /\ calls = << >> => result = Return(None)
                 /\ calls # << >> =>
                       /\ result = calls[Len(calls)]
                       /\ (result.kind = "raise"
                           /\ KindIn(result.exc.cls, origin.exceptions)) =>
                             Len(calls) = c.max_attempts
           /\ (c.max_attempts = 2 /\ Len(calls) >= 2
               /\ calls[2].kind = "return") =>
                 /\ Len(calls) = 2
                 /\ Len(delays) = 1
                 /\ pc = "done"
                 /\ result = Return(2)

C17_Witness ==
    /\ origin # None
    /\ origin.via = "config"
    /\ origin.config.max_attempts = 2
    /\ ~origin.config.jitter
    /\ Len(calls) = 2
    /\ calls[1].kind = "raise"
    /\ pc = "done"
    /\ result = Return(2)

(***************************************************************************)
(* Properties of the two calling conventions                               *)
(***************************************************************************)
IsPrefix(s, t) == Len(s) <= Len(t) /\ \A k \in DOMAIN s : s[k] = t[k]

\* C15: the wrapper is the coroutine wrapper exactly when the target is a
\* coroutine function, and under the same policy, target outcomes and
\* samples the coroutine wrapper makes the same target invocations, takes
\* the same delays, makes the same on_retry calls and ends with the same
\* result or failure as the blocking wrapper.
C15_SameBehaviour ==
    /\ \A t \in Targets :
          (Decorator(t) = "async_wrapper") <=> (t = "async def")
    /\ a_target # None => a_target.target = "async def"
    /\ a_pc # "starved"
    /\ IsPrefix(a_calls, calls)
    /\ IsPrefix(a_delays, delays)
    /\ IsPrefix(a_on_retry_calls, on_retry_calls)
    /\ a_pc = "done" =>
          /\ a_calls = calls
          /\ a_delays = delays
          /\ a_on_retry_calls = on_retry_calls
          /\ a_result = result

C15_Witness ==
    /\ a_pc = "done"
    /\ a_target = [target |-> "async def", wrapper |-> "async_wrapper"]
    /\ Len(a_calls) = 3
    /\ Len(a_delays) = 2
    /\ Len(a_on_retry_calls) = 2
    /\ a_delays[2].delay < a_delays[1].delay
    /\ a_result.kind = "raise"
    /\ a_result = result

\* C18: while the coroutine wrapper waits between attempts its task is
\* suspended and another task of the event loop can take a step before the
\* next attempt starts; while the blocking wrapper waits between attempts
\* its calling thread does nothing else.
C18_Waiting ==
    /\ (a_pc = "sleep" /\ Len(other_ran) < MaxOtherSteps) =>
          ENABLED OtherTaskStep
    /\ pc = "sleep" => ~ENABLED ThreadOtherWork
    /\ \A i \in DOMAIN thread_ran : thread_ran[i] \in {"idle", "done"}

C18_Witness ==
    /\ a_pc = "sleep"
    /\ a_attempt = 1
    /\ other_ran = <<"sleep", "sleep">>
    /\ Len(delays) >= 1
    /\ thread_ran = <<"done">>

(***************************************************************************)
(* Properties of the reasoning trace                                       *)
(***************************************************************************)
\* C19: after start_session on an enabled logger and any sequence of
\* log_user_message, log_llm_response and log_tool_result calls, the trace
\* file of the session holds, after each call, a complete document with the
\* session_start event first and then every logged event in call order,
\* with the logger's session id and with total_events counting the events
\* logged so far.
C19_TraceFile ==
    (is_enabled # None /\ is_enabled.on /\ session_id # None) =>
        /\ current_trace_file \in DOMAIN files
        /\ files[current_trace_file].complete
        /\ files[current_trace_file].session_id = session_id
        /\ files[current_trace_file].events =
              <<StartEvent>>
                 \o logged
        /\ files[current_trace_file].total_events = 1 + Len(logged)

(***************************************************************************)
(* Properties of the registry as a catalogue                               *)
(***************************************************************************)
\* the names registered since the last clear
RECURSIVE NamesSinceClear(_)
NamesSinceClear(h) ==
    IF h = << >> THEN {}
    ELSE IF h[Len(h)][1] = "clear" THEN {}
    ELSE {h[Len(h)][2]} \cup NamesSinceClear(SubSeq(h, 1, Len(h) - 1))

\* the parameter schema of a declared parameter list, written out
ExpectedSchema(ps) ==
    LET req == SelectSeq(ps, LAMBDA q : q.required)
    IN [type |-> "object",
        properties |->
           [n \in {ps[i].name : i \in DOMAIN ps} |->
               LET q == CHOOSE q \in {ps[i] : i \in DOMAIN ps} : q.name = n
               IN [type |-> q.type, description |-> q.description]],
        required |-> [i \in 1..Len(req) |-> req[i].name]]

\* C21: in every reachable state of the registry tool names are unique:
\* list_tools holds no two descriptors with the same name, every descriptor
\* is stored under the key equal to its name, and the number of descriptors
\* is the number of distinct names registered since the last clear.
C21_UniqueNames ==
    /\ \A i, j \in DOMAIN ListTools(tools, order) :
          ListTools(tools, order)[i].name = ListTools(tools, order)[j].name
             => i = j
    /\ \A n \in DOMAIN tools : tools[n].name = n
    /\ Len(ListTools(tools, order)) = Cardinality(NamesSinceClear(history))
    /\ Cardinality(DOMAIN tools) = Cardinality(NamesSinceClear(history))
    /\ lastCall.op = "list_tools" =>
          Len(lastCall.outcome.value) = Cardinality(NamesSinceClear(history))

C21_Witness ==
    /\ lastCall.op = "list_tools"
    /\ Len(history) = 2
    /\ history[1][1] = "register"
    /\ history[2][1] = "register"
    /\ history[1][2] = history[2][2]
    /\ Len(lastCall.outcome.value) = 1

\* C22: the schema export has exactly one entry per registered name, with
\* the name, description, parameter schema and implementation of the
\* descriptor most recently registered under that name; an implementation
\* replaced by a later registration is not exported, and after clear the
\* export is empty.
C22_Export ==
    lastCall.op = "get_tools_for_llm" =>
        LET out == lastCall.outcome.value
        IN /\ \A i, j \in DOMAIN out : out[i].name = out[j].name => i = j
           /\ {out[i].name : i \in DOMAIN out} = NamesSinceClear(history)
           /\ \A i \in DOMAIN out :
                 LET last == LastRegistered(history, out[i].name)[1]
                 IN out[i] = [name |-> last[2], description |-> last[3],
                              parameters |-> ExpectedSchema(last[4]),
                              function |-> last[5]]
           /\ (history # << >> /\ history[Len(history)] = <<"clear">>) =>
                 out = << >>

C22_Witness ==
    /\ lastCall.op = "get_tools_for_llm"
    /\ Len(history) = 2
    /\ history[1][1] = "register"
    /\ history[2][1] = "register"
    /\ history[1][2] = history[2][2]
    /\ history[1][5] = "list_files"
    /\ history[2][5] = "delete_file"
    /\ history[2][4] # << >>
    /\ Len(lastCall.outcome.value) = 1
    /\ lastCall.outcome.value[1].function = "delete_file"
    /\ lastCall.outcome.value[1].parameters.required = <<"pattern">>

\* C23: get, list_tools, the schema export and execute leave the registry
\* mapping unchanged; a list returned by list_tools is a snapshot, so later
\* register and clear calls do not change it, and adding to or removing
\* from it does not change the registry.
C23_Frame ==
    /\ lastCall.op \in {"get", "execute", "list_tools", "get_tools_for_llm",
                        "list_append", "list_remove"} =>
          tools = lastCall.before
    /\ listing # None => ListContents(listing, tools, order) = seen
    /\ lastCall.op \in {"list_append", "list_remove"} =>
          lastCall.outcome = Return(None)

C23_Witness ==
    /\ lastCall.op = "clear"
    /\ listing # None
    /\ Len(seen) = 2
    /\ seen[1].name = "ls"
    /\ seen[2] = OwnTool
    /\ tools = << >>

\* C24: registration does not compare the declared parameters with the
\* signature of the implementation and always succeeds; a later execute
\* whose named arguments the implementation does not accept (one it has no
\* parameter for, or a mandatory one missing) returns the string "Error
\* executing '<name>': ..." and does not raise.
C24_Mismatch ==
    /\ lastCall.op = "register" =>
          /\ lastCall.outcome.kind = "return"
          /\ lastCall.name \in DOMAIN tools
          /\ tools[lastCall.name].parameters = history[Len(history)][4]
    /\ (/\ lastCall.op = "execute"
        /\ lastCall.name \in DOMAIN lastCall.before
        /\ LET f == lastCall.before[lastCall.name].function
           IN \/ ~(lastCall.keys \subseteq ImplAccepts(f))
              \/ ~(ImplRequires(f) \subseteq lastCall.keys)) =>
          /\ lastCall.outcome.kind = "return"
          /\ Len(lastCall.outcome.value) = 4
          /\ lastCall.outcome.value[1] = "Error executing '"
          /\ lastCall.outcome.value[2] = lastCall.name
          /\ lastCall.outcome.value[3] = "': "
          /\ tools = lastCall.before

C24_Witness ==
    /\ lastCall.op = "execute"
    /\ lastCall.name \in DOMAIN tools
    /\ tools[lastCall.name].function = "delete_file"
    /\ tools[lastCall.name].parameters # << >>
    /\ lastCall.keys = {}
    /\ lastCall.outcome =
          Return(<<"Error executing '", lastCall.name, "': ",
                   "missing 1 required positional argument">>)

\* C29: execute contains only failures of the Exception family: a failure
\* of the implementation outside it (KeyboardInterrupt, SystemExit,
\* GeneratorExit) is not converted to a string but propagates to the
\* caller, and no error-level record is logged for it.
C29_Propagates ==
    (/\ lastCall.op = "execute"
     /\ lastCall.name \in DOMAIN lastCall.before
     /\ LET b == ImplBody(lastCall.before[lastCall.name].function)
        IN /\ b.kind = "raise"
           /\ ~KindIn(b.exc.cls, {"Exception"})
     /\ lastCall.keys \subseteq {"path"}) =>
        /\ lastCall.outcome =
              ImplBody(lastCall.before[lastCall.name].function)
        /\ lastCall.outcome.kind = "raise"
        /\ \A i \in DOMAIN lastCall.logs : lastCall.logs[i] # "error"
        /\ tools = lastCall.before

C29_Witness ==
    /\ lastCall.op = "execute"
    /\ lastCall.name \in DOMAIN tools
    /\ tools[lastCall.name].function = "interrupted_tool"
    /\ lastCall.keys = {"path"}
    /\ lastCall.outcome = Raise("KeyboardInterrupt", "")
    /\ lastCall.logs = <<"debug">>

(***************************************************************************)
(* Properties of the retry wrapper at its edges                            *)
(***************************************************************************)
\* C27: when on_retry raises while handling the failure of attempt k, the
\* retry sequence is aborted: the failure of the callback leaves the
\* wrapped call at once, no delay is taken, the target is not invoked
\* again, and the caller sees the callback's failure, not the target's; in
\* the blocking and in the coroutine wrapper alike.
C27_CallbackRaises ==
    /\ (pc # "idle" /\ policy.on_retry = "raises"
        /\ on_retry_calls # << >>) =>
          /\ pc = "done"
          /\ result = [kind |-> "raise", exc |-> CallbackError]
          /\ result.exc # calls[Len(calls)].exc
          /\ Len(on_retry_calls) = 1
          /\ on_retry_calls[1] = <<calls[Len(calls)].exc, Len(calls)>>
          /\ Len(calls) = 1
          /\ delays = << >>
    /\ (a_pc # "idle" /\ policy.on_retry = "raises"
        /\ a_on_retry_calls # << >>) =>
          /\ a_pc = "done"
          /\ a_result = [kind |-> "raise", exc |-> CallbackError]
          /\ Len(a_on_retry_calls) = 1
          /\ Len(a_calls) = 1
          /\ a_delays = << >>

C27_Witness ==
    /\ pc = "done"
    /\ a_pc = "done"
    /\ policy.on_retry = "raises"
    /\ policy.max_attempts = 3
    /\ Len(calls) = 1
    /\ Len(a_calls) = 1
    /\ result = [kind |-> "raise", exc |-> CallbackError]
    /\ a_result = result
    /\ delays = << >>

C26_Terminates ==
    /\ [](pc # "idle" /\ policy.max_attempts >= 1 =>
             /\ Len(calls) <= policy.max_attempts
             /\ Len(delays) <= policy.max_attempts - 1)
    /\ []((pc = "done" /\ policy.max_attempts >= 1
           /\ policy.on_retry # "raises") =>
             /\ result = calls[Len(calls)]
             /\ \/ result.kind = "return"
                \/ /\ result.kind = "raise"
                   /\ KindIn(result.exc.cls, policy.exceptions)
                   /\ Len(calls) = policy.max_attempts
                   /\ Len(delays) = policy.max_attempts - 1
                \/ /\ result.kind = "raise"
                   /\ ~KindIn(result.exc.cls, policy.exceptions))
    /\ (pc = "loop") ~> (pc = "done")

C26_Witness ==
    /\ pc = "done"
    /\ policy.max_attempts = 3
    /\ policy.on_retry = "returns"
    /\ Len(calls) = 3
    /\ Len(delays) = 2
    /\ result.kind = "raise"
    /\ result = calls[3]

\* C30: on a logger that is disabled or has no session started, log_event
\* and the log_user_message, log_llm_response and log_tool_result
\* conveniences are no-ops: the event list stays as it is and no trace file
\* is created or written; start_session on a disabled logger leaves
\* session_id, current_trace_file and events as they are.
C30_NoOps ==
    (is_enabled # None /\ (~is_enabled.on \/ session_id = None)) =>
        /\ events = << >>
        /\ files = << >>
        /\ session_id = None
        /\ current_trace_file = None
        /\ lastLog.op # "init" => lastLog.before = events

C30_Witness ==
    /\ is_enabled # None
    /\ ~is_enabled.on
    /\ lastLog.op = "start_session"
    /\ Len(logged) = 0
    /\ events = << >>
    /\ files = << >>

(***************************************************************************)
(* Properties of interleaved calls                                         *)
(***************************************************************************)
\* the failure of the last own invocation that qualified, None without one
FrameLastFailure(c) ==
    LET q == {k \in DOMAIN c.calls :
                 /\ c.calls[k].kind = "raise"
                 /\ KindIn(c.calls[k].exc.cls, wrapped_as.exceptions)}
    IN IF q = {} THEN None
       ELSE c.calls[CHOOSE k \in q : \A m \in q : m <= k].exc

\* C25: attempt counting is per call: every call starts at attempt 1 with
\* no remembered failure, whatever earlier or interleaved calls under the
\* same policy did; the attempt counter, the delays and the last-failure
\* record of a call come from its own invocations only, and the policy is
\* never modified by a call.
C25_PerCall ==
    /\ closure = wrapped_as
    /\ \A i \in Callers :
          cs[i].pc # "idle" =>
             /\ cs[i].attempt = Len(cs[i].delays) + 1
             /\ Len(cs[i].calls) \in {cs[i].attempt - 1, cs[i].attempt}
             /\ Len(cs[i].calls) <= wrapped_as.max_attempts
             /\ cs[i].calls = << >> =>
                   cs[i].attempt = 1 /\ cs[i].last_exception = None
             /\ \A k \in DOMAIN cs[i].calls :
                   cs[i].calls[k] \in
                      {FrameTargetCall(i, out, k) :
                          out \in {"ok", "ValueError", "ConnectionError"}}
             /\ cs[i].last_exception = FrameLastFailure(cs[i])
             /\ \A k \in DOMAIN cs[i].delays :
                   /\ cs[i].delays[k].attempt = k
                   /\ cs[i].delays[k].delay * Scale =
                         Min(wrapped_as.base_delay
                                * Pow(wrapped_as.exponential_base, k - 1),
                             wrapped_as.max_delay) * cs[i].delays[k].factor
             /\ \A k \in DOMAIN cs[i].on_retry_calls :
                   cs[i].on_retry_calls[k] = <<cs[i].calls[k].exc, k>>
             /\ cs[i].pc = "done" =>
                   cs[i].result = cs[i].calls[Len(cs[i].calls)]

C25_Witness ==
    /\ cs["a"].pc = "sleep"
    /\ cs["a"].attempt = 2
    /\ Len(cs["a"].delays) = 1
    /\ cs["b"].pc = "except"
    /\ cs["b"].attempt = 1
    /\ cs["b"].last_exception.id = <<"b", 1>>
    /\ cs["a"].last_exception.id = <<"a", 2>>
====
